---- MODULE Spec2Model ----
(***************************************************************************)
(* Greek Tax News Hub: the feed fetch / normalise / merge / cache pipeline *)
(* of the browser application.                                             *)
(*                                                                         *)
(*   assets/js/app.js        GreekTaxNewsHub          (refresh, merge)      *)
(*   assets/js/storage.js    GreekTaxStorageManager   (localStorage)        *)
(*   unnamed/part_002        GreekTaxRSSParser        (cache, two proxies)  *)
(*   .github/workflows/js/rss-parser.js  RSSParser    (eight proxies)       *)
(*                                                                         *)
(* Strings are sequences of character codes.  Times are milliseconds.      *)
(***************************************************************************)
EXTENDS Integers, Sequences, FiniteSets, TLC

VARIABLES
    now,        \* Date.now(), the wall clock in ms
    ticks,      \* how many times the clock has advanced (bounds the run)
    pin,        \* pure-function check: the inputs drawn
    pout,       \* pure-function check: the outputs computed
    rss,        \* RSSParser.parseRSSFeed: the running call
    cache,      \* GreekTaxRSSParser.cache: url -> {articles, timestamp}
    gp,         \* GreekTaxRSSParser.parseFeed: the running call
    calls,      \* how many fetcher calls were started (bounds the run)
    articles,   \* GreekTaxNewsHub.articles
    isLoading,  \* GreekTaxNewsHub.isLoading
    autoRefreshTimer, \* GreekTaxNewsHub.autoRefreshTimer is set
    runs,       \* refreshAllFeeds invocations in progress
    lastCall,   \* the refreshAllFeeds call made by the latest step, if any
    lastMerge,  \* the mergeArticles call made by the latest step, if any
    stored,     \* localStorage greekTaxNews_articles
    bookmarks,  \* localStorage greekTaxNews_bookmarks
    archived,   \* localStorage greekTaxNews_archived
    budget,     \* refresh calls, user actions and full-storage handlers left
    srv,        \* backend/server.js: the process, pool, connectDB, last response
    scr         \* js/script.js RSSParser: feeds, articles, loads in progress

pureVars  == <<pin, pout>>
fetchVars == <<rss, gp, calls>>
appVars   == <<articles, isLoading, autoRefreshTimer, runs, lastCall, lastMerge, stored,
               bookmarks, archived, budget>>
sideVars  == <<srv, scr>>
vars      == <<now, ticks, pin, pout, rss, cache, gp, calls, articles,
               isLoading, autoRefreshTimer, runs, lastCall, lastMerge, stored, bookmarks,
               archived, budget, srv, scr>>

-----------------------------------------------------------------------------
(* Sequence helpers *)

Range(s) == { s[i] : i \in 1..Len(s) }

Min(a, b) == IF a < b THEN a ELSE b

\* Array.prototype.slice(0, n)
Slice(s, n) == SubSeq(s, 1, Min(n, Len(s)))

-----------------------------------------------------------------------------
(* 32-bit integer arithmetic on two 16-bit limbs <<hi, lo>>: the hash of    *)
(* simpleHash is a JavaScript int32 and wraps.                              *)

W16 == 65536

\* ToInt32(31 * h + c), the loop body of simpleHash:
\*   hash = ((hash << 5) - hash) + char;  hash = hash & hash;
HashStep(h, c) ==
    LET lo == 31 * h[2] + c
        hi == 31 * h[1] + (lo \div W16)
    IN  <<hi % W16, lo % W16>>

\* Math.abs of the int32 held in the limbs (hi >= 32768 is negative).
Abs32(h) ==
    IF h[1] < 32768 THEN h
    ELSE LET lo == (W16 - h[2]) % W16
             hi == (W16 - 1 - h[1]) + (IF h[2] = 0 THEN 1 ELSE 0)
         IN  <<hi, lo>>

\* One digit of Number.prototype.toString(36): '0'..'9', 'a'..'z'
Digit36(d) == IF d < 10 THEN 48 + d ELSE 87 + d

\* n.toString(36) of a non-negative limb pair, most significant digit first
RECURSIVE ToString36(_)
ToString36(h) ==
    LET r1  == h[1] % 36
        q1  == h[1] \div 36
        x   == r1 * W16 + h[2]
        q   == <<q1, x \div 36>>
        d   == x % 36
    IN  IF q = <<0, 0>> THEN <<Digit36(d)>>
        ELSE ToString36(q) \o <<Digit36(d)>>

RECURSIVE HashLoop(_, _)
HashLoop(str, h) ==
    IF str = <<>> THEN h ELSE HashLoop(Tail(str), HashStep(h, Head(str)))

\* GreekTaxRSSParser.simpleHash
simpleHash(str) == ToString36(Abs32(HashLoop(str, <<0, 0>>)))

\* The '-' of the template `${title}-${link}-${pubDate}`
Dash == <<45>>

\* The id is a record: the text before the last '-' and the Date.now()
\* appended after it.
\* GreekTaxRSSParser.generateArticleId, with the clock value it reads.
generateArticleId(title, link, pubDate, t) ==
    [hash |-> simpleHash(title \o Dash \o link \o Dash \o pubDate), at |-> t]

-----------------------------------------------------------------------------
(* btoa and the id of RSSParser (rss-parser.js)                             *)

\* The base64 alphabet: A-Z a-z 0-9 + /
B64Char(i) ==
    IF i < 26 THEN 65 + i
    ELSE IF i < 52 THEN 97 + (i - 26)
    ELSE IF i < 62 THEN 48 + (i - 52)
    ELSE IF i = 62 THEN 43 ELSE 47

PadChar == 61

\* btoa throws InvalidCharacterError on a character outside Latin-1
BtoaThrows(s) == \E i \in 1..Len(s) : s[i] > 255

RECURSIVE Btoa(_)
Btoa(s) ==
    IF Len(s) = 0 THEN <<>>
    ELSE IF Len(s) = 1 THEN
        <<B64Char(s[1] \div 4), B64Char((s[1] % 4) * 16), PadChar, PadChar>>
    ELSE IF Len(s) = 2 THEN
        <<B64Char(s[1] \div 4),
          B64Char((s[1] % 4) * 16 + (s[2] \div 16)),
          B64Char((s[2] % 16) * 4), PadChar>>
    ELSE
        <<B64Char(s[1] \div 4),
          B64Char((s[1] % 4) * 16 + (s[2] \div 16)),
          B64Char((s[2] % 16) * 4 + (s[3] \div 64)),
          B64Char(s[3] % 64)>> \o Btoa(SubSeq(s, 4, Len(s)))

IsAlnum(c) ==
    \/ (c >= 48 /\ c <= 57) \/ (c >= 65 /\ c <= 90) \/ (c >= 97 /\ c <= 122)

IdPrefixLen == 20

\* RSSParser.generateArticleId: btoa(content).replace(/[^a-zA-Z0-9]/g, '')
\*   .substring(0, 20) + '-' + Date.now(); threw when btoa throws
rssGenerateArticleId(title, link, pubDate, t) ==
    LET content == title \o Dash \o link \o Dash \o pubDate
    IN  IF BtoaThrows(content) THEN [threw |-> TRUE, hash |-> <<>>, at |-> t]
        ELSE [threw |-> FALSE,
              hash |-> Slice(SelectSeq(Btoa(content), IsAlnum), IdPrefixLen),
              at |-> t]

-----------------------------------------------------------------------------
(* Text and date sanitising of GreekTaxRSSParser (part_002)                 *)

LT == 60
GT == 62
SP == 32

\* \s of a JavaScript regular expression (the ones below 256)
IsSpace(c) == c \in {9, 10, 11, 12, 13, 32, 160}

\* Index of the first '>' at or after position i, 0 when there is none
RECURSIVE NextGT(_, _)
NextGT(s, i) ==
    IF i > Len(s) THEN 0 ELSE IF s[i] = GT THEN i ELSE NextGT(s, i + 1)

\* text.replace(/<[^>]+>/g, ''), scanning from position i
RECURSIVE StripTagsFrom(_, _)
StripTagsFrom(s, i) ==
    IF i > Len(s) THEN <<>>
    ELSE IF s[i] = LT /\ NextGT(s, i + 1) > i + 1
         THEN StripTagsFrom(s, NextGT(s, i + 1) + 1)
         ELSE <<s[i]>> \o StripTagsFrom(s, i + 1)

\* text.replace(/\s+/g, ' '), scanning from position i
RECURSIVE CollapseFrom(_, _)
CollapseFrom(s, i) ==
    IF i > Len(s) THEN <<>>
    ELSE IF IsSpace(s[i])
         THEN IF i > 1 /\ IsSpace(s[i - 1]) THEN CollapseFrom(s, i + 1)
              ELSE <<SP>> \o CollapseFrom(s, i + 1)
         ELSE <<s[i]>> \o CollapseFrom(s, i + 1)

\* String.prototype.trim
RECURSIVE Trim(_)
Trim(s) ==
    IF s = <<>> THEN s
    ELSE IF IsSpace(s[1]) THEN Trim(Tail(s))
    ELSE IF IsSpace(s[Len(s)]) THEN Trim(SubSeq(s, 1, Len(s) - 1))
    ELSE s

\* GreekTaxRSSParser.cleanGreekText
cleanGreekText(text) ==
    IF text = <<>> THEN <<>>
    ELSE Trim(CollapseFrom(StripTagsFrom(text, 1), 1))

\* Date strings.  The model's date syntax is a run of decimal digits, the
\* time in ms; every other string is what new Date(s) cannot parse.
IsDigit(c) == c >= 48 /\ c <= 57

DateParses(s) == s # <<>> /\ \A i \in 1..Len(s) : IsDigit(s[i])

RECURSIVE DateValue(_)
DateValue(s) ==
    IF s = <<>> THEN 0
    ELSE 10 * DateValue(SubSeq(s, 1, Len(s) - 1)) + (s[Len(s)] - 48)

\* GreekTaxRSSParser.parseGreekDate, with the clock value it falls back to
parseGreekDate(dateString, t) ==
    IF dateString = <<>> THEN t
    ELSE IF DateParses(dateString) THEN DateValue(dateString)
    ELSE t

-----------------------------------------------------------------------------
(* Feed items and the articles made of them (part_002)                      *)

\* 'Χωρίς τίτλο', the placeholder title (Greek capitals are above 255)
NoTitle == <<935, 969, 961, 943, 962, 32, 964, 943, 964, 955, 959>>

\* An item or entry element, or an item object of RSS2JSON, by the text of
\* the children the parsers read; <<>> stands for a child that is missing
\* or empty (null, undefined and '' are all falsy).  href is the href
\* attribute of the first link element.
Elem(title, description, summary, content, link, guid, href, pubDate, published, updated) ==
    [title |-> title, description |-> description, summary |-> summary,
     content |-> content, link |-> link, guid |-> guid, href |-> href,
     pubDate |-> pubDate, published |-> published, updated |-> updated]

\* An RSS 2.0 item with title, link, pubDate and description
Item(title, link, pubDate, description) ==
    Elem(title, description, <<>>, <<>>, link, <<>>, <<>>, pubDate, <<>>,
         <<>>)

\* a || b || c for strings: the first one that is not empty
FirstOf(a, b, c) == IF a # <<>> THEN a ELSE IF b # <<>> THEN b ELSE c

\* "A" / x / published at 30
ItemA  == Item(<<65>>, <<120>>, <<51, 48>>, <<100>>)
\* the same title, link and date with an edited description
ItemA2 == Item(<<65>>, <<120>>, <<51, 48>>, <<101>>)
\* an older item: "B" / y / published at 10
ItemB  == Item(<<66>>, <<121>>, <<49, 48>>, <<100>>)

Items == {ItemA, ItemA2, ItemB}

\* The article object of processRSS2JSONItems.  oid stands for the identity
\* of the JavaScript object: <<feedId, creation time, index>>.  The fields
\* author, category and readingTime are carried by no operation below.
GreekArticle(item, feedId, t, index) ==
    [id          |-> generateArticleId(item.title, item.link, item.pubDate, t),
     title       |-> cleanGreekText(IF item.title = <<>> THEN NoTitle
                                    ELSE item.title),
     description |-> cleanGreekText(FirstOf(item.description, item.content,
                                            <<>>)),
     link        |-> FirstOf(item.link, item.guid, <<>>),
     pubDate     |-> parseGreekDate(item.pubDate, t),
     feedId      |-> feedId,
     read        |-> FALSE,
     bookmarked  |-> FALSE,
     archived    |-> FALSE,
     createdAt   |-> t,
     oid         |-> <<feedId, t, index>>]

\* GreekTaxRSSParser.processRSS2JSONItems
processRSS2JSONItems(items, feedId, t) ==
    [i \in 1..Len(items) |-> GreekArticle(items[i], feedId, t, i)]

\* getContent(tagName) of parseXMLItem: the trimmed text of the child
GetContent(text) == Trim(text)

\* The article of parseXMLItem from the values of lines 183-186
XmlArticle(title, description, link, pubDate, feedId, t, index) ==
    [id          |-> generateArticleId(title, link, pubDate, t),
     title       |-> cleanGreekText(title),
     description |-> cleanGreekText(description),
     link        |-> link,
     pubDate     |-> parseGreekDate(pubDate, t),
     feedId      |-> feedId,
     read        |-> FALSE,
     bookmarked  |-> FALSE,
     archived    |-> FALSE,
     createdAt   |-> t,
     oid         |-> <<feedId, t, index>>]

\* A parseXMLItem without the placeholder: the title as it was read
parseXMLItemNoPlaceholder(item, feedId, t, index) ==
    XmlArticle(GetContent(item.title),
               FirstOf(GetContent(item.description),
                       GetContent(item.summary), GetContent(item.content)),
               FirstOf(GetContent(item.link), GetContent(item.guid), <<>>),
               FirstOf(GetContent(item.pubDate), GetContent(item.published),
                       GetContent(item.updated)),
               feedId, t, index)

\* GreekTaxRSSParser.parseXMLItem: the XML path puts the placeholder title
\* into the id as well, and reads no href attribute
parseXMLItem(item, feedId, t, index) ==
    XmlArticle(FirstOf(GetContent(item.title), NoTitle, NoTitle),
               FirstOf(GetContent(item.description),
                       GetContent(item.summary), GetContent(item.content)),
               FirstOf(GetContent(item.link), GetContent(item.guid), <<>>),
               FirstOf(GetContent(item.pubDate), GetContent(item.published),
                       GetContent(item.updated)),
               feedId, t, index)

\* An XML text as the DOMParser sees it:
\*   wellFormed     parsing as text/xml reports no parsererror
\*   items          the item elements of that parse; entries, its entry
\*                  elements
\*   htmlItems      the item, else entry, elements that the lenient
\*                  text/html parse shows
\*   repairable     the text repaired by repairXML parses as text/xml
\*   repairedItems  the item, else entry, elements of that parse
XmlDoc(wellFormed, items, htmlItems, repairable, repairedItems) ==
    [wellFormed |-> wellFormed, items |-> items, entries |-> <<>>,
     htmlItems |-> htmlItems, repairable |-> repairable,
     repairedItems |-> repairedItems]

\* A well-formed RSS 2.0 document, and a well-formed Atom document
WellFormed(items) == XmlDoc(TRUE, items, <<>>, FALSE, <<>>)
AtomDoc(entries) == [WellFormed(<<>>) EXCEPT !.entries = entries]

\* querySelectorAll('item'), and querySelectorAll('entry') when there is
\* no item
SelectItems(doc) == IF Len(doc.items) = 0 THEN doc.entries ELSE doc.items

\* A value returned, or an exception thrown with a message
Returned(arts) == [threw |-> FALSE, articles |-> arts, error |-> "none"]
Thrown(msg)    == [threw |-> TRUE, articles |-> <<>>, error |-> msg]

\* GreekTaxRSSParser.parseXMLContent
parseXMLContentGreek(doc, feedId, t) ==
    IF ~doc.wellFormed THEN Thrown("XML parsing failed")
    ELSE Returned([i \in 1..Len(SelectItems(doc)) |->
                      parseXMLItem(SelectItems(doc)[i], feedId, t, i)])


-----------------------------------------------------------------------------
(* Bounds of the model                                                      *)

\* The collection cap.  app.js:224 and storage.js:49 write 1000; the model
\* runs the same code with a cap small enough to be reached.
ArticleCap == 2
\* The length handleStorageError trims to (storage.js:389 writes 500),
\* scaled with the cap.
QuotaTrim == 1
\* Enabled feeds of CONFIG.DEFAULT_FEEDS (five in part_001)
NumFeeds == 2
\* Clock advances, refreshAllFeeds calls after the one of init(), user
\* actions (clicks, addArticle calls) and handlers that meet a full
\* localStorage in one behaviour
MaxTicks == 1
MaxRefresh == 1
MaxActs == 1
MaxQuota == 1

\* GreekTaxRSSParser.cacheTimeout
cacheTimeout == 600000

FeedIds == 1..NumFeeds

\* What a feed may serve: one item, an older item ahead of a newer one, and
\* the same item twice, the second time with an edited description
FeedDocs == {<<ItemA2>>, <<ItemB, ItemA>>, <<ItemA, ItemA2>>}

-----------------------------------------------------------------------------
(* GreekTaxStorageManager (assets/js/storage.js)                            *)

\* JSON.stringify / JSON.parse of an article list: the fields survive, the
\* object identity does not.
ToJSON(list) == [i \in 1..Len(list) |-> [list[i] EXCEPT !.oid = <<>>]]

\* How localStorage answers setItem during one handler:
\*   "ok"    every setItem succeeds
\*   "tight" the article list does not fit (QuotaExceededError), a list
\*           trimmed by handleStorageError and the small keys do
\*   "full"  every setItem throws QuotaExceededError
Quotas == {"ok", "tight", "full"}

\* "full" once more, told apart by where the stack runs out in the
\* recursion of saveArticles and handleStorageError: for "full" in a catch
\* block, so that the RangeError reaches the caller; for "deep" in a try
\* block of the innermost call, which catches it
StorageQuotas == Quotas \cup {"deep"}

\* Index of the first element with the id, 0 when there is none
\* (Array.prototype.find / findIndex)
RECURSIVE FindFrom(_, _, _)
FindFrom(list, id, i) ==
    IF i > Len(list) THEN 0
    ELSE IF list[i].id = id THEN i ELSE FindFrom(list, id, i + 1)

Find(list, id) == FindFrom(list, id, 1)

\* articles.some(a => a.id === id)
HasId(list, id) == \E i \in 1..Len(list) : list[i].id = id

\* GreekTaxStorageManager.handleStorageError for a QuotaExceededError:
\* the stored list afterwards and whether the nested saveArticles recursion
\* ends ("done") or overflows the stack ("throw")
handleStorageError(st, q) ==
    IF Len(st) > QuotaTrim
    THEN IF q = "tight"
         THEN [stored |-> Slice(st, QuotaTrim), result |-> "done"]
         ELSE IF q = "deep"
         THEN [stored |-> st, result |-> "done"]
         ELSE [stored |-> st, result |-> "throw"]
    ELSE [stored |-> st, result |-> "done"]

\* GreekTaxStorageManager.saveArticles: the stored list afterwards and the
\* value returned, "throw" when the recursion of handleStorageError never
\* ends
saveArticles(list, st, q) ==
    IF q = "ok" THEN [stored |-> ToJSON(list), result |-> "true"]
    ELSE LET h == handleStorageError(st, q)
         IN  [stored |-> h.stored,
              result |-> IF h.result = "throw" THEN "throw" ELSE "false"]

\* GreekTaxStorageManager.addArticle
addArticle(article, st, q) ==
    IF HasId(st, article.id) THEN [stored |-> st, result |-> "false"]
    ELSE LET unshifted == <<article>> \o st
             kept == IF Len(unshifted) > ArticleCap
                     THEN Slice(unshifted, ArticleCap) ELSE unshifted
         IN  saveArticles(kept, st, q)

\* GreekTaxStorageManager.deleteArticle
deleteArticle(articleId, st, q) ==
    saveArticles(SelectSeq(st, LAMBDA a : a.id # articleId), st, q)

\* GreekTaxStorageManager.addToBookmarks / addToArchive: the collection
\* afterwards
addToCollection(coll, article, q) ==
    IF HasId(coll, article.id) \/ q \in {"full", "deep"} THEN coll
    ELSE ToJSON(<<article>>) \o coll

\* GreekTaxStorageManager.removeFromBookmarks / removeFromArchive
removeFromCollection(coll, articleId, q) ==
    IF q \in {"full", "deep"} THEN coll
    ELSE SelectSeq(coll, LAMBDA b : b.id # articleId)

\* GreekTaxStorageManager.toggleBookmark / toggleArchive, for the flag
\* named: the stored list, the flag's collection, the value returned, and
\* threw when saveArticles throws
toggleFlag(flag, articleId, st, coll, q) ==
    LET i == Find(st, articleId)
    IN  IF i = 0
        THEN [stored |-> st, coll |-> coll, threw |-> FALSE, value |-> FALSE]
        ELSE LET flipped == [st EXCEPT ![i][flag] = ~st[i][flag]]
                 sv == saveArticles(flipped, st, q)
             IN  IF sv.result = "throw"
                 THEN [stored |-> sv.stored, coll |-> coll, threw |-> TRUE,
                       value |-> FALSE]
                 ELSE [stored |-> sv.stored,
                       coll |-> IF flipped[i][flag]
                                THEN addToCollection(coll, flipped[i], q)
                                ELSE removeFromCollection(coll, articleId, q),
                       threw |-> FALSE,
                       value |-> flipped[i][flag]]

\* GreekTaxStorageManager.updateArticle(articleId, {read: true}), which is
\* markAsRead
storageMarkAsRead(articleId, st, q) ==
    LET i == Find(st, articleId)
    IN  IF i = 0 THEN [stored |-> st, result |-> "false"]
        ELSE saveArticles([st EXCEPT ![i].read = TRUE], st, q)


-----------------------------------------------------------------------------
(* Proxy responses                                                          *)

\* What one proxy request comes to:
\*   net          "resolve", "reject" (network error) or "timeout" (abort)
\*   ok           response.ok
\*   ctype        the content-type header: "json" or "xml"
\*   json         the body parses as JSON (response.json() does not throw)
\*   status       data.status
\*   hasItems     data.items is present; items, its elements
\*   hasContents  data.contents is a non-empty string; doc, the XML text in
\*                data.contents, or the raw body when the body is not JSON
Resp(net, ok, ctype, json, status, hasItems, items, hasContents, doc) ==
    [net |-> net, ok |-> ok, ctype |-> ctype, json |-> json,
     status |-> status, hasItems |-> hasItems, items |-> items,
     hasContents |-> hasContents, doc |-> doc]

NoDoc == XmlDoc(FALSE, <<>>, <<>>, FALSE, <<>>)

RespReject    == Resp("reject", FALSE, "xml", FALSE, "none", FALSE, <<>>, FALSE, NoDoc)
RespTimeout   == Resp("timeout", FALSE, "xml", FALSE, "none", FALSE, <<>>, FALSE, NoDoc)
RespHttpError == Resp("resolve", FALSE, "xml", FALSE, "none", FALSE, <<>>, FALSE, NoDoc)
\* {status: 'ok', items: [...]}
RespItems(items) ==
    Resp("resolve", TRUE, "json", TRUE, "ok", TRUE, items, FALSE, NoDoc)
\* {status: 'error', message: ...}
RespStatusError ==
    Resp("resolve", TRUE, "json", TRUE, "error", FALSE, <<>>, FALSE, NoDoc)
\* {contents: '<rss>...'}
RespContents(doc) ==
    Resp("resolve", TRUE, "json", TRUE, "none", FALSE, <<>>, TRUE, doc)
\* a JSON object with none of the expected fields
RespEmptyJson ==
    Resp("resolve", TRUE, "json", TRUE, "none", FALSE, <<>>, FALSE, NoDoc)
\* a raw XML body
RespXml(doc) ==
    Resp("resolve", TRUE, "xml", FALSE, "none", FALSE, <<>>, FALSE, doc)

-----------------------------------------------------------------------------
(* GreekTaxRSSParser.fetchWithProxies (part_002)                            *)

\* One try block of fetchWithProxies: whether it returned, the articles
\* returned, and the error pushed ("none" when nothing was pushed)
StepResult(returned, arts, error) ==
    [returned |-> returned, articles |-> arts, error |-> error]

\* The RSS2JSON block (lines 64-81)
rss2jsonStep(r, feedId, t) ==
    IF r.net # "resolve" THEN StepResult(FALSE, <<>>, "fetch failed")
    ELSE IF ~r.ok THEN StepResult(FALSE, <<>>, "none")
    ELSE IF ~r.json THEN StepResult(FALSE, <<>>, "invalid json")
    ELSE IF r.status = "ok" /\ r.hasItems /\ Len(r.items) > 0
         THEN StepResult(TRUE, processRSS2JSONItems(r.items, feedId, t), "none")
         ELSE StepResult(FALSE, <<>>, "none")

\* The AllOrigins block (lines 84-96)
allOriginsStep(r, feedId, t) ==
    IF r.net # "resolve" THEN StepResult(FALSE, <<>>, "fetch failed")
    ELSE IF ~r.ok THEN StepResult(FALSE, <<>>, "none")
    ELSE IF ~r.json THEN StepResult(FALSE, <<>>, "invalid json")
    ELSE IF r.hasContents
         THEN LET parsed == parseXMLContentGreek(r.doc, feedId, t)
              IN  IF parsed.threw THEN StepResult(FALSE, <<>>, parsed.error)
                  ELSE StepResult(TRUE, parsed.articles, "none")
         ELSE StepResult(FALSE, <<>>, "none")

\* errors.push(...) when the block caught an exception
PushError(errors, proxy, step) ==
    IF step.error = "none" THEN errors
    ELSE Append(errors, [proxy |-> proxy, error |-> step.error])

\* fetchWithProxies from the two responses, the second one being read only
\* when the first block does not return
fetchWithProxies(r1, r2, feedId, t) ==
    LET s1 == rss2jsonStep(r1, feedId, t)
        s2 == allOriginsStep(r2, feedId, t)
    IN  IF s1.returned THEN Returned(s1.articles)
        ELSE IF s2.returned THEN Returned(s2.articles)
        ELSE Thrown("All proxy attempts failed")

-----------------------------------------------------------------------------
(* GreekTaxRSSParser.parseFeed and its cache (part_002)                     *)

NoEntry == [articles |-> <<>>, timestamp |-> -1]

\* The freshness test with <= for <
CacheFreshInclusive(c, url, t) ==
    c[url] # NoEntry /\ t - c[url].timestamp <= cacheTimeout

\* const cached = this.cache.get(url);
\* cached && Date.now() - cached.timestamp < this.cacheTimeout
CacheFresh(c, url, t) ==
    c[url] # NoEntry /\ t - c[url].timestamp < cacheTimeout

\* A cache.set that leaves the old timestamp in place
CacheSetKeepingTimestamp(c, url, arts, t) ==
    [c EXCEPT ![url] = [articles |-> arts,
                        timestamp |-> IF c[url] = NoEntry THEN 0
                                      ELSE c[url].timestamp]]

\* this.cache.set(url, {articles, timestamp: Date.now()})
CacheSet(c, url, arts, t) ==
    [c EXCEPT ![url] = [articles |-> arts, timestamp |-> t]]

\* parseFeed that stores what the fetch returned before it looks at its
\* length
parseFeedMissCachingEmpty(c, url, fetched, t) ==
    IF fetched.threw THEN [result |-> fetched, cache |-> c]
    ELSE [result |-> IF Len(fetched.articles) = 0
                     THEN Thrown("No articles found in feed")
                     ELSE fetched,
          cache |-> CacheSet(c, url, fetched.articles, t)]

\* parseFeed after the cache miss, given what fetchWithProxies came to:
\* what parseFeed returns or throws, and the cache afterwards
parseFeedMiss(c, url, fetched, t) ==
    IF fetched.threw THEN [result |-> fetched, cache |-> c]
    ELSE IF Len(fetched.articles) = 0
         THEN [result |-> Thrown("No articles found in feed"), cache |-> c]
         ELSE [result |-> fetched,
               cache |-> CacheSet(c, url, fetched.articles, t)]


-----------------------------------------------------------------------------
(* GreekTaxNewsHub (assets/js/app.js)                                       *)

\* The guard of refreshAllFeeds: if (this.isLoading) return;
BusyNever(loading) == FALSE

Busy(loading) == loading

\* mergeArticles without the cap
mergeUncapped(existing, newArticles) ==
    LET existingIds == { existing[i].id : i \in 1..Len(existing) }
        uniqueNew == SelectSeq(newArticles, LAMBDA a : a.id \notin existingIds)
    IN  uniqueNew \o existing

\* mergeArticles that lets an incoming article overwrite the existing one
mergeOverwriting(existing, newArticles) ==
    LET newIds == { newArticles[i].id : i \in 1..Len(newArticles) }
        kept == SelectSeq(existing, LAMBDA a : a.id \notin newIds)
        merged == newArticles \o kept
    IN  IF Len(merged) > ArticleCap THEN Slice(merged, ArticleCap) ELSE merged

\* mergeArticles that rebuilds the existing articles an incoming article
\* names, with the flags of a fresh article
mergeDroppingFlags(existing, newArticles) ==
    LET newIds == { newArticles[i].id : i \in 1..Len(newArticles) }
        existingIds == { existing[i].id : i \in 1..Len(existing) }
        uniqueNew == SelectSeq(newArticles, LAMBDA a : a.id \notin existingIds)
        rebuilt == [i \in 1..Len(existing) |->
                      IF existing[i].id \in newIds
                      THEN [existing[i] EXCEPT !.read = FALSE,
                                               !.bookmarked = FALSE,
                                               !.archived = FALSE]
                      ELSE existing[i]]
        merged == uniqueNew \o rebuilt
    IN  IF Len(merged) > ArticleCap THEN Slice(merged, ArticleCap) ELSE merged

\* GreekTaxNewsHub.mergeArticles
mergeArticles(existing, newArticles) ==
    LET existingIds == { existing[i].id : i \in 1..Len(existing) }
        uniqueNew == SelectSeq(newArticles, LAMBDA a : a.id \notin existingIds)
        merged == uniqueNew \o existing
    IN  IF Len(merged) > ArticleCap THEN Slice(merged, ArticleCap) ELSE merged

\* The loop of refreshAllFeeds runs on without a network wait while
\* parseFeed answers from the cache: from feed idx on, the feed it stops at
\* (NumFeeds + 1 when the loop is over) and the articles pushed.
RECURSIVE Advance(_, _, _, _)
Advance(c, t, idx, acc) ==
    IF idx > NumFeeds THEN [idx |-> idx, acc |-> acc]
    ELSE IF CacheFresh(c, idx, t)
         THEN Advance(c, t, idx + 1, acc \o c[idx].articles)
         ELSE [idx |-> idx, acc |-> acc]

\* A loop body that gives the articles pushed so far up when a feed fails
PushArticlesAborting(acc, result) ==
    IF result.threw THEN <<>> ELSE acc \o result.articles

\* The body of the loop of refreshAllFeeds (lines 169-185) for one feed:
\* newArticles.push(...articles), or the catch block, which pushes nothing
PushArticles(acc, result) ==
    IF result.threw THEN acc ELSE acc \o result.articles

\* A write to a field of the object oid reaches every reference to it
SetField(list, oid, field, value) ==
    [i \in 1..Len(list) |->
        IF list[i].oid = oid THEN [list[i] EXCEPT ![field] = value]
        ELSE list[i]]

SetFieldInCache(c, oid, field, value) ==
    [u \in DOMAIN c |->
        [c[u] EXCEPT !.articles = SetField(@, oid, field, value)]]

SetFieldInRuns(rs, oid, field, value) ==
    [r \in 1..Len(rs) |->
        [rs[r] EXCEPT !.acc = SetField(@, oid, field, value)]]

\* Removing the r-th element of a sequence
RemoveAt(s, r) == SubSeq(s, 1, r - 1) \o SubSeq(s, r + 1, Len(s))


-----------------------------------------------------------------------------
(* The application: state after construction, and its handlers              *)

\* What the two proxies may answer during a refresh
AppRss2Json ==
    {RespReject, RespHttpError, RespStatusError, RespItems(<<>>)}
    \cup { RespItems(d) : d \in FeedDocs }

AppAllOrigins ==
    {RespReject, RespEmptyJson, RespContents(NoDoc),
     RespContents(WellFormed(<<>>))}
    \cup { RespContents(WellFormed(d)) : d \in FeedDocs }

\* What fetchWithProxies can come to for a feed at time t
FetchResults(feedId, t) ==
    { fetchWithProxies(r1, r2, feedId, t) :
        r1 \in AppRss2Json, r2 \in AppAllOrigins }

QuotaChoices == IF budget.quota > 0 THEN Quotas ELSE {"ok"}

Spend(field, q) ==
    [budget EXCEPT ![field] = @ - 1,
                   !.quota = IF q = "ok" THEN @ ELSE @ - 1]

NoMerge == [existing |-> <<>>, incoming |-> <<>>, merged |-> <<>>,
            warned |-> {}, done |-> FALSE]

NoCall == [caller |-> "none", ran |-> FALSE]

\* The constructor calls init(), which loads the stored articles and calls
\* refreshAllFeeds: with an empty cache the refresh waits for the first
\* feed.
InitApp ==
    /\ stored = <<>>
    /\ bookmarks = <<>>
    /\ archived = <<>>
    /\ articles = stored
    /\ isLoading = TRUE
    /\ autoRefreshTimer = FALSE
    /\ runs = <<[caller |-> "init", idx |-> 1, acc |-> <<>>,
                  warned |-> {}]>>
    /\ lastCall = [caller |-> "init", ran |-> TRUE]
    /\ lastMerge = NoMerge
    /\ budget = [refresh |-> MaxRefresh, acts |-> MaxActs,
                 quota |-> MaxQuota]

\* The end of refreshAllFeeds without the finally block: an exception of
\* saveArticles leaves isLoading set
FinishRefreshNoFinally(caller, incoming, warned, q) ==
    LET merged == mergeArticles(articles, incoming)
        sv == saveArticles(merged, stored, q)
    IN  /\ articles' = merged
        /\ stored' = sv.stored
        /\ isLoading' = (sv.result = "throw")
        /\ autoRefreshTimer' = (autoRefreshTimer \/ caller = "init")
        /\ lastMerge' = [existing |-> articles, incoming |-> incoming,
                         merged |-> merged, warned |-> warned,
                         done |-> TRUE]

\* The end of refreshAllFeeds (lines 189-212): merge, save, and the finally
\* block; init() then sets the auto-refresh timer up (lines 49-51).  warned
\* holds the feeds whose warning the catch block of line 183 has shown.
FinishRefresh(caller, incoming, warned, q) ==
    LET merged == mergeArticles(articles, incoming)
        sv == saveArticles(merged, stored, q)
    IN  /\ articles' = merged
        /\ stored' = sv.stored
        /\ isLoading' = FALSE
        /\ autoRefreshTimer' = (autoRefreshTimer \/ caller = "init")
        /\ lastMerge' = [existing |-> articles, incoming |-> incoming,
                         merged |-> merged, warned |-> warned,
                         done |-> TRUE]

Callers == {"button"} \cup (IF autoRefreshTimer THEN {"timer"} ELSE {})

\* refreshAllFeeds called while a refresh is running: line 159 returns
RefreshIgnored(caller) ==
    /\ budget.refresh > 0
    /\ Busy(isLoading)
    /\ budget' = Spend("refresh", "ok")
    /\ lastCall' = [caller |-> caller, ran |-> FALSE]
    /\ lastMerge' = NoMerge
    /\ UNCHANGED <<sideVars, now, ticks, pureVars, fetchVars, cache, articles,
                   isLoading, autoRefreshTimer, runs, stored, bookmarks,
                   archived>>

\* refreshAllFeeds called, some feed is not in the cache: the call waits
\* for that feed's fetch
RefreshStart(caller) ==
    /\ budget.refresh > 0
    /\ ~Busy(isLoading)
    /\ LET a == Advance(cache, now, 1, <<>>)
       IN  /\ a.idx <= NumFeeds
           /\ runs' = Append(runs, [caller |-> caller, idx |-> a.idx,
                                    acc |-> a.acc, warned |-> {}])
    /\ isLoading' = TRUE
    /\ budget' = Spend("refresh", "ok")
    /\ lastCall' = [caller |-> caller, ran |-> TRUE]
    /\ lastMerge' = NoMerge
    /\ UNCHANGED <<sideVars, now, ticks, pureVars, fetchVars, cache, articles,
                   autoRefreshTimer, stored, bookmarks, archived>>

\* refreshAllFeeds called, every feed is answered from the cache: the call
\* runs to its end without a network wait
RefreshFromCache(caller, q) ==
    /\ budget.refresh > 0
    /\ ~Busy(isLoading)
    /\ LET a == Advance(cache, now, 1, <<>>)
       IN  /\ a.idx > NumFeeds
           /\ FinishRefresh(caller, a.acc, {}, q)
    /\ budget' = Spend("refresh", q)
    /\ lastCall' = [caller |-> caller, ran |-> TRUE]
    /\ UNCHANGED <<sideVars, now, ticks, pureVars, fetchVars, cache, runs, bookmarks,
                   archived>>

\* The fetch a refresh waits for completes, and a later feed needs the
\* network again
FeedFetched(r, fetched) ==
    LET run == runs[r]
        pm  == parseFeedMiss(cache, run.idx, fetched, now)
        acc == PushArticles(run.acc, pm.result)
        a   == Advance(pm.cache, now, run.idx + 1, acc)
        warned == IF pm.result.threw THEN run.warned \cup {run.idx}
                  ELSE run.warned
    IN  /\ a.idx <= NumFeeds
        /\ runs' = [runs EXCEPT ![r] = [caller |-> run.caller,
                                        idx |-> a.idx, acc |-> a.acc,
                                        warned |-> warned]]
        /\ cache' = pm.cache
        /\ lastCall' = NoCall
        /\ lastMerge' = NoMerge
        /\ UNCHANGED <<sideVars, now, ticks, pureVars, fetchVars, articles, isLoading,
                       autoRefreshTimer, stored, bookmarks, archived,
                       budget>>

\* The fetch a refresh waits for completes and no feed is left
FeedFetchedLast(r, fetched, q) ==
    LET run == runs[r]
        pm  == parseFeedMiss(cache, run.idx, fetched, now)
        acc == PushArticles(run.acc, pm.result)
        a   == Advance(pm.cache, now, run.idx + 1, acc)
        warned == IF pm.result.threw THEN run.warned \cup {run.idx}
                  ELSE run.warned
    IN  /\ a.idx > NumFeeds
        /\ runs' = RemoveAt(runs, r)
        /\ cache' = pm.cache
        /\ FinishRefresh(run.caller, a.acc, warned, q)
        /\ budget' = [budget EXCEPT
                        !.quota = IF q = "ok" THEN @ ELSE @ - 1]
        /\ lastCall' = NoCall
        /\ UNCHANGED <<sideVars, now, ticks, pureVars, fetchVars, bookmarks, archived>>


\* A click on the bookmark or archive button of the i-th article
\* (GreekTaxNewsHub.toggleBookmark / toggleArchive): the storage manager
\* toggles the stored copy, then the local object takes the value returned.
ToggleLocal(flag, i, tf) ==
    LET articleId == articles[i].id
        oid == articles[Find(articles, articleId)].oid
    IN  IF tf.threw
        THEN UNCHANGED <<articles, cache, runs>>
        ELSE /\ articles' = SetField(articles, oid, flag, tf.value)
             /\ cache' = SetFieldInCache(cache, oid, flag, tf.value)
             /\ runs' = SetFieldInRuns(runs, oid, flag, tf.value)

ToggleBookmark(i, q) ==
    /\ budget.acts > 0
    /\ i \in 1..Len(articles)
    /\ LET tf == toggleFlag("bookmarked", articles[i].id, stored, bookmarks, q)
       IN  /\ stored' = tf.stored
           /\ bookmarks' = tf.coll
           /\ ToggleLocal("bookmarked", i, tf)
    /\ budget' = Spend("acts", q)
    /\ lastCall' = NoCall
    /\ lastMerge' = NoMerge
    /\ UNCHANGED <<sideVars, now, ticks, pureVars, fetchVars, isLoading,
                   autoRefreshTimer, archived>>

ToggleArchive(i, q) ==
    /\ budget.acts > 0
    /\ i \in 1..Len(articles)
    /\ LET tf == toggleFlag("archived", articles[i].id, stored, archived, q)
       IN  /\ stored' = tf.stored
           /\ archived' = tf.coll
           /\ ToggleLocal("archived", i, tf)
    /\ budget' = Spend("acts", q)
    /\ lastCall' = NoCall
    /\ lastMerge' = NoMerge
    /\ UNCHANGED <<sideVars, now, ticks, pureVars, fetchVars, isLoading,
                   autoRefreshTimer, bookmarks>>

\* A click on the read button of the i-th article
\* (GreekTaxNewsHub.markAsRead)
MarkAsRead(i, q) ==
    /\ budget.acts > 0
    /\ i \in 1..Len(articles)
    /\ LET sv == storageMarkAsRead(articles[i].id, stored, q)
           oid == articles[Find(articles, articles[i].id)].oid
       IN  /\ stored' = sv.stored
           /\ IF sv.result = "throw"
              THEN UNCHANGED <<articles, cache, runs>>
              ELSE /\ articles' = SetField(articles, oid, "read", TRUE)
                   /\ cache' = SetFieldInCache(cache, oid, "read", TRUE)
                   /\ runs' = SetFieldInRuns(runs, oid, "read", TRUE)
    /\ budget' = Spend("acts", q)
    /\ lastCall' = NoCall
    /\ lastMerge' = NoMerge
    /\ UNCHANGED <<sideVars, now, ticks, pureVars, fetchVars, isLoading,
                   autoRefreshTimer, bookmarks, archived>>

\* storageManager.addArticle(article) with a freshly made article
StorageAddArticle(item, q) ==
    /\ budget.acts > 0
    /\ stored' = addArticle(ToJSON(<<GreekArticle(item, 1, now, 1)>>)[1],
                            stored, q).stored
    /\ budget' = Spend("acts", q)
    /\ lastCall' = NoCall
    /\ lastMerge' = NoMerge
    /\ UNCHANGED <<sideVars, now, ticks, pureVars, fetchVars, cache, articles,
                   isLoading, autoRefreshTimer, runs, bookmarks, archived>>

\* The clock advances by 1 ms or by the cache lifetime
TickSteps == {1, cacheTimeout}

Tick(d) ==
    /\ ticks < MaxTicks
    /\ now' = now + d
    /\ ticks' = ticks + 1
    /\ lastCall' = NoCall
    /\ lastMerge' = NoMerge
    /\ UNCHANGED <<sideVars, pureVars, fetchVars, cache, articles, isLoading,
                   autoRefreshTimer, runs, stored, bookmarks, archived,
                   budget>>

-----------------------------------------------------------------------------
(* Specification of the application                                         *)

\* What the message of the Error of line 71 names: the message of
\* lastError and proxies.length
NoMessage == [last |-> "none", count |-> 0]

\* No call of RSSParser.parseRSSFeed is running
RssIdle == [pc |-> "idle", i |-> 0, attempts |-> <<>>, lastError |-> "none",
            delay |-> 0, result |-> Returned(<<>>), message |-> NoMessage,
            failures |-> 0, waited |-> <<>>]

\* No call of GreekTaxRSSParser.parseFeed was made
GpIdle == [pc |-> "idle", url |-> 0, calledAt |-> 0, seen |-> NoEntry,
           requests |-> <<>>, errors |-> <<>>, result |-> Returned(<<>>)]

\* The backend process is not started; no page of js/script.js is open
SrvOff == [pc |-> "off"]
ScrOff == [pc |-> "off"]

IdleSide ==
    /\ srv = SrvOff
    /\ scr = ScrOff

NoInput == [none |-> TRUE]

IdleFetchers ==
    /\ pin = NoInput
    /\ pout = NoInput
    /\ rss = RssIdle
    /\ gp = GpIdle
    /\ calls = 0

Init ==
    /\ IdleSide
    /\ now = 0
    /\ ticks = 0
    /\ cache = [u \in FeedIds |-> NoEntry]
    /\ IdleFetchers
    /\ InitApp

Next ==
    \/ \E c \in Callers : RefreshIgnored(c)
    \/ \E c \in Callers : RefreshStart(c)
    \/ \E c \in Callers, q \in QuotaChoices : RefreshFromCache(c, q)
    \/ \E r \in 1..Len(runs) : \E f \in FetchResults(runs[r].idx, now) :
          FeedFetched(r, f)
    \/ \E r \in 1..Len(runs) : \E f \in FetchResults(runs[r].idx, now) :
          \E q \in QuotaChoices : FeedFetchedLast(r, f, q)
    \/ \E i \in 1..Len(articles), q \in QuotaChoices : ToggleBookmark(i, q)
    \/ \E i \in 1..Len(articles), q \in QuotaChoices : ToggleArchive(i, q)
    \/ \E i \in 1..Len(articles), q \in QuotaChoices : MarkAsRead(i, q)
    \/ \E item \in Items, q \in QuotaChoices : StorageAddArticle(item, q)
    \/ \E d \in TickSteps : Tick(d)

Spec == Init /\ [][Next]_vars

\* The parseFeed call a run of refreshAllFeeds waits for returns or throws.
\* Every pending call can throw (both proxies may reject) and the save that
\* follows can succeed, so this step is enabled exactly when a call is
\* pending; weak fairness on it rules out only the behaviours in which a
\* pending call never settles.
FetchSettles ==
    \E r \in 1..Len(runs) :
        \/ FeedFetched(r, Thrown("All proxy attempts failed"))
        \/ FeedFetchedLast(r, Thrown("All proxy attempts failed"), "ok")

SpecLive == Init /\ [][Next]_vars /\ WF_vars(FetchSettles)

-----------------------------------------------------------------------------
(* Properties of the application                                            *)

Flags(a) == <<a.read, a.bookmarked, a.archived>>

Content(a) == <<a.title, a.description, a.link, a.pubDate>>

UniqueIds(list) ==
    \A i, j \in 1..Len(list) : i # j => list[i].id # list[j].id

CountId(list, id) == Cardinality({ i \in 1..Len(list) : list[i].id = id })

\* C3: after any sequence of refreshes and storage.addArticle calls no two
\* articles of the article collection (the list of the application, the
\* list in localStorage) have the same id, also when one batch of incoming
\* articles holds two articles with equal ids.
C3_IdsUnique == UniqueIds(articles) /\ UniqueIds(stored)

\* C4 as stated: when an incoming article shares its id with an existing
\* article that is read, bookmarked or archived, the merged collection
\* contains that id with the flag still true.
C4_FlaggedIdSurvivesMerge ==
    lastMerge.done =>
        \A i \in 1..Len(lastMerge.existing) :
            LET e == lastMerge.existing[i]
            IN  \A f \in {"read", "bookmarked", "archived"} :
                    (e[f] /\ HasId(lastMerge.incoming, e.id)) =>
                        \E k \in 1..Len(lastMerge.merged) :
                            /\ lastMerge.merged[k].id = e.id
                            /\ lastMerge.merged[k][f]

\* C4 amended: a merge changes no flag.  Every existing article is still in
\* the merged collection with the flags it had, unless the collection is at
\* its cap; and the flags of an article of the collection change only in a
\* step of toggleBookmark, toggleArchive or markAsRead.
C4_MergeKeepsFlags ==
    [][ /\ lastMerge'.done =>
              \A i \in 1..Len(lastMerge'.existing) :
                  \/ Len(lastMerge'.merged) = ArticleCap
                  \/ \E k \in 1..Len(lastMerge'.merged) :
                        /\ lastMerge'.merged[k].id = lastMerge'.existing[i].id
                        /\ Flags(lastMerge'.merged[k])
                              = Flags(lastMerge'.existing[i])
        /\ \A i \in 1..Len(articles), k \in 1..Len(articles') :
              (articles'[k].oid = articles[i].oid
                 /\ Flags(articles'[k]) # Flags(articles[i]))
              => (budget'.acts < budget.acts /\ ~lastMerge'.done)
      ]_vars

\* C4 witness: a merge whose incoming articles name a bookmarked existing
\* article, which the merged collection still holds bookmarked
C4_Witness ==
    /\ lastMerge.done
    /\ \E i \in 1..Len(lastMerge.existing) :
          /\ lastMerge.existing[i].bookmarked
          /\ HasId(lastMerge.incoming, lastMerge.existing[i].id)
          /\ \E k \in 1..Len(articles) :
                /\ articles[k].id = lastMerge.existing[i].id
                /\ articles[k].bookmarked

C6_KeepsMostRecent ==
    lastMerge.done =>
        LET pool == lastMerge.existing \o lastMerge.incoming
            m == lastMerge.merged
        IN  \A i \in 1..Len(pool), k \in 1..Len(m) :
                ~HasId(m, pool[i].id) => pool[i].pubDate <= m[k].pubDate

\* C7: after every mergeArticles and every successful storage.addArticle the
\* article collection (of the application, of localStorage) holds at most
\* the cap of articles.
C7_AtMostCap == Len(articles) <= ArticleCap /\ Len(stored) <= ArticleCap

\* C7 witness: a merge of more articles than the cap has left the
\* collection at the cap
C7_Witness ==
    /\ lastMerge.done
    /\ Len(lastMerge.existing) + Len(lastMerge.incoming) > ArticleCap
    /\ Len(articles) = ArticleCap
    /\ Len(stored) = ArticleCap

\* C24: every run of refreshAllFeeds that sets isLoading sets it back to
\* false in the end, whether the feeds succeed or fail and whether saving
\* throws, provided every parseFeed call returns or throws; so that no
\* later refresh is held back for ever by the flag.
C24_LoadingEnds == isLoading ~> ~isLoading

\* C24 witness: a refresh in which every feed failed has ended and the
\* flag is down
C24_Witness ==
    /\ lastMerge.done
    /\ lastMerge.warned = FeedIds
    /\ ~isLoading
    /\ runs = <<>>

\* C10: at most one run of refreshAllFeeds is in progress, and a call of
\* refreshAllFeeds made while isLoading is true returns at once: it starts
\* no run and changes neither the articles, the stored lists, the cache,
\* the flag nor the timer.
C10_OneRefreshAtATime ==
    [][ /\ Len(runs') <= 1
        /\ (isLoading /\ lastCall'.caller # "none") =>
              /\ ~lastCall'.ran
              /\ UNCHANGED <<articles, stored, bookmarks, archived, cache,
                             runs, isLoading, autoRefreshTimer, now>>
              /\ ~lastMerge'.done
      ]_vars

\* C10 witness: the refresh button was pressed while the refresh of init()
\* was waiting for a feed, and the call returned at line 159
C10_Witness ==
    /\ lastCall = [caller |-> "button", ran |-> FALSE]
    /\ isLoading
    /\ Len(runs) = 1
    /\ runs[1].caller = "init"

\* The feeds that have an article in a list
FeedsOf(list) == { list[i].feedId : i \in 1..Len(list) }

\* How many incoming articles mergeArticles takes for new
CountNew(existing, incoming) ==
    Cardinality({ j \in 1..Len(incoming) : ~HasId(existing, incoming[j].id) })

-----------------------------------------------------------------------------
(* RSSParser (.github/workflows/js/rss-parser.js): normalising              *)

\* 'Untitled'
Untitled == <<85, 110, 116, 105, 116, 108, 101, 100>>

\* The pattern pat is at position i of s
HasPrefixAt(s, i, pat) ==
    /\ i + Len(pat) - 1 <= Len(s)
    /\ SubSeq(s, i, i + Len(pat) - 1) = pat

\* s.replace(/pat/g, repl) for a literal pattern, scanning from position i
RECURSIVE ReplaceFrom(_, _, _, _)
ReplaceFrom(s, i, pat, repl) ==
    IF i > Len(s) THEN <<>>
    ELSE IF HasPrefixAt(s, i, pat)
         THEN repl \o ReplaceFrom(s, i + Len(pat), pat, repl)
         ELSE <<s[i]>> \o ReplaceFrom(s, i + 1, pat, repl)

\* text.replace(/<[^>]*>/g, ''), scanning from position i
RECURSIVE StripAnyTagsFrom(_, _)
StripAnyTagsFrom(s, i) ==
    IF i > Len(s) THEN <<>>
    ELSE IF s[i] = LT /\ NextGT(s, i + 1) > 0
         THEN StripAnyTagsFrom(s, NextGT(s, i + 1) + 1)
         ELSE <<s[i]>> \o StripAnyTagsFrom(s, i + 1)

\* RSSParser.cleanText: tags, then the six entities in the order of the
\* code, then white space
cleanText(text) ==
    LET t0 == StripAnyTagsFrom(text, 1)
        t1 == ReplaceFrom(t0, 1, <<38, 110, 98, 115, 112, 59>>, <<SP>>)
        t2 == ReplaceFrom(t1, 1, <<38, 97, 109, 112, 59>>, <<38>>)
        t3 == ReplaceFrom(t2, 1, <<38, 108, 116, 59>>, <<LT>>)
        t4 == ReplaceFrom(t3, 1, <<38, 103, 116, 59>>, <<GT>>)
        t5 == ReplaceFrom(t4, 1, <<38, 113, 117, 111, 116, 59>>, <<34>>)
        t6 == ReplaceFrom(t5, 1, <<38, 35, 51, 57, 59>>, <<39>>)
    IN  Trim(CollapseFrom(t6, 1))

\* RSSParser.parseDate, with the clock value it falls back to.  The result
\* is the time in ms that date.toISOString() writes.
parseDate(dateString, t) ==
    IF dateString = <<>> THEN t
    ELSE IF DateParses(dateString) THEN DateValue(dateString)
    ELSE t

\* The text of a time: the decimal digits of the ms, in the date syntax of
\* the model (toISOString)
RECURSIVE ToDigits(_)
ToDigits(n) ==
    IF n < 10 THEN <<48 + n>>
    ELSE ToDigits(n \div 10) \o <<48 + (n % 10)>>

\* The address of feed u
FeedUrl(u) == <<117, 48 + u>>

\* The article object of parseRSS2JSONItem and parseItem
RssArticle(id, title, description, link, pubDate, t) ==
    [id |-> id, title |-> title, description |-> description,
     source_url |-> link, pub_date |-> pubDate, read |-> FALSE,
     bookmarked |-> FALSE, created_at |-> t]

\* An article with its id: threw when generateArticleId throws
WithId(id, title, description, link, pubDate, t) ==
    [threw |-> id.threw,
     article |-> RssArticle(id, title, description, link, pubDate, t)]

\* x || dflt for a string
OrElse(x, dflt) == IF x = <<>> THEN dflt ELSE x

\* RSSParser.parseRSS2JSONItem
parseRSS2JSONItem(item, sourceUrl, t) ==
    WithId(rssGenerateArticleId(OrElse(item.title, Untitled), item.link,
                                item.pubDate, t),
           cleanText(OrElse(item.title, Untitled)),
           cleanText(FirstOf(item.description, item.content, <<>>)),
           FirstOf(item.link, item.guid, sourceUrl),
           parseDate(item.pubDate, t), t)

\* new Date(pubDate).toISOString() of parseItem, the clock value when the
\* text is missing or no date
ItemTime(pub, t) == IF DateParses(pub) THEN DateValue(pub) ELSE t

\* The end of parseItem (lines 289-302), the fields being extracted
ParsedItem(title, description, link, pubDate, t) ==
    WithId(rssGenerateArticleId(title, link, ToDigits(pubDate), t),
           title, description, link, pubDate, t)

\* RSSParser.parseItem on an item or entry element
parseItem(item, sourceUrl, t) ==
    ParsedItem(cleanText(OrElse(Trim(item.title), Untitled)),
               cleanText(FirstOf(Trim(item.description), Trim(item.summary),
                                 Trim(item.content))),
               FirstOf(Trim(item.link), Trim(item.guid), item.href),
               ItemTime(FirstOf(Trim(item.pubDate), Trim(item.published),
                                Trim(item.updated)), t), t)

\* parseXMLSafely that gives up after the parse as text/xml
parseXMLSafelyOnce(doc) ==
    IF doc.wellFormed
    THEN [threw |-> FALSE, items |-> SelectItems(doc), attempts |-> <<"xml">>]
    ELSE [threw |-> TRUE, items |-> <<>>, attempts |-> <<"xml">>]

\* RSSParser.parseXMLSafely: the parses made, in order, and the item (else
\* entry) elements of the document returned; threw for the Error of line
\* 211
parseXMLSafely(doc) ==
    IF doc.wellFormed
    THEN [threw |-> FALSE, items |-> SelectItems(doc), attempts |-> <<"xml">>]
    ELSE IF doc.htmlItems # <<>>
    THEN [threw |-> FALSE, items |-> doc.htmlItems,
          attempts |-> <<"xml", "html">>]
    ELSE IF doc.repairable
    THEN [threw |-> FALSE, items |-> doc.repairedItems,
          attempts |-> <<"xml", "html", "repaired xml">>]
    ELSE [threw |-> TRUE, items |-> <<>>,
          attempts |-> <<"xml", "html", "repaired xml">>]

\* The articles of the items that were parsed
ArticlesOf(parsed) == [k \in 1..Len(parsed) |-> parsed[k].article]

\* An extractArticles without the try of line 248: the first item whose
\* parseItem throws ends the forEach and the articles are lost
extractArticlesAborting(items, sourceUrl, t) ==
    IF \E k \in 1..Len(items) : parseItem(items[k], sourceUrl, t).threw
    THEN <<>>
    ELSE [k \in 1..Len(items) |-> parseItem(items[k], sourceUrl, t).article]

\* RSSParser.extractArticles: an item whose parseItem throws is left out
extractArticles(items, sourceUrl, t) ==
    ArticlesOf(SelectSeq([k \in 1..Len(items) |->
                             parseItem(items[k], sourceUrl, t)],
                         LAMBDA q : ~q.threw))

\* RSSParser.parseXMLContent
parseXMLContent(doc, sourceUrl, t) ==
    IF parseXMLSafely(doc).threw THEN Thrown("XML parsing failed")
    ELSE Returned(extractArticles(parseXMLSafely(doc).items, sourceUrl, t))

\* The proxies of parseRSSFeed, in list order
NumProxies == 8

\* What processProxyResponse tells the i-th proxy address to be
ProxyKind(i) ==
    IF i = 1 THEN "rss2json" ELSE IF i = 2 THEN "allorigins" ELSE "other"

\* data.items.map(...): an exception in one item ends the map
MapOrThrow(mapped) ==
    IF \E k \in 1..Len(mapped) : mapped[k].threw
    THEN Thrown("InvalidCharacterError")
    ELSE Returned(ArticlesOf(mapped))

\* What processProxyResponse throws before it reaches parseXMLContent for
\* the response of the i-th proxy, "none" when it reaches it
BodyError(r, i) ==
    IF ProxyKind(i) = "allorigins" THEN
        IF ~r.json THEN "invalid json"
        ELSE IF r.hasContents THEN "none"
        ELSE "AllOrigins: No content in response"
    ELSE IF r.ctype = "json" THEN
        IF ~r.json THEN "invalid json"
        ELSE IF r.hasContents THEN "none"
        ELSE "JSON response does not contain XML content"
    ELSE "none"

\* RSSParser.processProxyResponse for the response of the i-th proxy
processProxyResponse(r, i, sourceUrl, t) ==
    IF ProxyKind(i) = "rss2json" THEN
        IF ~r.json THEN Thrown("invalid json")
        ELSE IF r.status = "ok" /\ r.hasItems THEN
            MapOrThrow([k \in 1..Len(r.items) |->
                           parseRSS2JSONItem(r.items[k], sourceUrl, t)])
        ELSE Thrown("RSS2JSON error")
    ELSE IF BodyError(r, i) # "none" THEN Thrown(BodyError(r, i))
    ELSE parseXMLContent(r.doc, sourceUrl, t)

\* Lines 50-56: articles end the loop, an empty list is an error
NonEmpty(a) ==
    IF a.threw THEN a
    ELSE IF Len(a.articles) > 0 THEN a
    ELSE Thrown("No articles found in response")

\* One pass of the try block of parseRSSFeed (lines 31-56) for the i-th
\* proxy: the articles, or what the catch block receives
rssAttempt(r, i, sourceUrl, t) ==
    IF r.net = "reject" THEN Thrown("fetch failed")
    ELSE IF r.net = "timeout" THEN Thrown("TimeoutError")
    ELSE IF ~r.ok THEN Thrown("HTTP error")
    ELSE NonEmpty(processProxyResponse(r, i, sourceUrl, t))

-----------------------------------------------------------------------------
(* RSSParser.parseRSSFeed, one proxy request at a time                      *)

\* AbortSignal.timeout(20000)
FetchTimeout == 20000

\* What follows the i-th pass of the loop without the break of line 53
rssAfterAttemptNoBreak(i, outcome) ==
    IF i < NumProxies
    THEN [pc |-> "delay", delay |-> Min(1000 * i, 3000)]
    ELSE [pc |-> "done", delay |-> 0]

\* What follows the i-th pass with a delay of 1000 * (i + 1) ms that is
\* not capped
rssAfterAttemptLinear(i, outcome) ==
    IF ~outcome.threw THEN [pc |-> "done", delay |-> 0]
    ELSE IF i < NumProxies
         THEN [pc |-> "delay", delay |-> 1000 * i]
         ELSE [pc |-> "done", delay |-> 0]

\* What follows the i-th pass of the loop (i from 1): the break on articles
\* (line 53), else the progressive delay before the next proxy (lines
\* 63-66), else the end of the list
rssAfterAttempt(i, outcome) ==
    IF ~outcome.threw THEN [pc |-> "done", delay |-> 0]
    ELSE IF i < NumProxies
         THEN [pc |-> "delay", delay |-> Min(1000 * i, 3000)]
         ELSE [pc |-> "done", delay |-> 0]

\* An item with a Greek title: 'Νέα'
ItemG == Item(<<925, 941, 945>>, <<122>>, <<50, 48>>, <<100>>)

\* What a proxy may answer to parseRSSFeed
RssResponses ==
    {RespReject, RespTimeout, RespHttpError, RespStatusError, RespEmptyJson,
     RespItems(<<ItemA>>), RespItems(<<ItemG>>), RespItems(<<>>),
     RespContents(WellFormed(<<ItemA>>)),
     RespContents(WellFormed(<<ItemG, ItemB>>)),
     RespXml(WellFormed(<<ItemA>>)), RespXml(WellFormed(<<>>)),
     RespXml(XmlDoc(FALSE, <<>>, <<>>, TRUE, <<ItemB>>)), RespXml(NoDoc)}

\* parseRSSFeed(url) is called
RssStart ==
    /\ rss.pc = "idle"
    /\ gp.pc = "idle"
    /\ calls = 0
    /\ rss' = [RssIdle EXCEPT !.pc = "fetch", !.i = 1]
    /\ calls' = calls + 1
    /\ UNCHANGED <<sideVars, now, ticks, pureVars, gp, cache, appVars>>

\* When the request settles: an aborted one after the timeout
SettleTime(r) == now + (IF r.net = "timeout" THEN FetchTimeout ELSE 0)

\* The call after the i-th pass, whose outcome is given: the catch block
\* (lines 58-67) or the code after the loop (lines 70-76)
RssSettle(outcome, after, t) ==
    /\ now' = t
    /\ rss' = [pc |-> after.pc,
               i |-> rss.i,
               attempts |-> Append(rss.attempts,
                                   [proxy |-> rss.i,
                                    articles |-> outcome.articles]),
               lastError |-> IF outcome.threw THEN outcome.error
                             ELSE rss.lastError,
               delay |-> after.delay,
               result |-> IF after.pc # "done" THEN rss.result
                          ELSE IF outcome.threw
                               THEN Thrown("RSS parsing failed")
                               ELSE Returned(outcome.articles),
               message |-> IF after.pc = "done" /\ outcome.threw
                           THEN [last |-> outcome.error,
                                 count |-> NumProxies]
                           ELSE rss.message,
               failures |-> IF outcome.threw THEN rss.failures + 1
                            ELSE rss.failures,
               waited |-> rss.waited]

\* The i-th pass for the feed of the call
RssOutcome(r) == rssAttempt(r, rss.i, FeedUrl(1), SettleTime(r))

\* The request to the i-th proxy settles (or is aborted after 20 s) and the
\* try block runs to its end or into the catch block
RssAttempt(r) ==
    /\ rss.pc = "fetch"
    /\ RssSettle(RssOutcome(r), rssAfterAttempt(rss.i, RssOutcome(r)),
                 SettleTime(r))
    /\ UNCHANGED <<sideVars, ticks, pureVars, gp, calls, cache, appVars>>

\* The delay before the next proxy is over
RssDelay ==
    /\ rss.pc = "delay"
    /\ now' = now + rss.delay
    /\ rss' = [rss EXCEPT !.pc = "fetch", !.i = @ + 1, !.delay = 0,
                           !.waited = Append(@, rss.delay)]
    /\ UNCHANGED <<sideVars, ticks, pureVars, gp, calls, cache, appVars>>

-----------------------------------------------------------------------------
(* GreekTaxRSSParser.parseFeed, one proxy request at a time                 *)

\* parseFeed calls and clock advances in one behaviour
MaxCalls == 3
MaxElapse == 2

\* parseFeed(url) is called: the cache answers (lines 24-28), or the
\* request to RSS2JSON goes out
GpCall(u) ==
    /\ rss.pc = "idle"
    /\ gp.pc \in {"idle", "done"}
    /\ calls < MaxCalls
    /\ calls' = calls + 1
    /\ gp' = IF CacheFresh(cache, u, now)
             THEN [pc |-> "done", url |-> u, calledAt |-> now,
                   seen |-> cache[u], requests |-> <<>>, errors |-> <<>>,
                   result |-> Returned(cache[u].articles)]
             ELSE [pc |-> "rss2json", url |-> u, calledAt |-> now,
                   seen |-> cache[u], requests |-> <<>>, errors |-> <<>>,
                   result |-> Returned(<<>>)]
    /\ UNCHANGED <<sideVars, now, ticks, pureVars, rss, cache, appVars>>

\* The rest of parseFeed once fetchWithProxies has returned or thrown
\* (lines 33-51)
GpFinish(fetched, requests, errors) ==
    LET pm == parseFeedMiss(cache, gp.url, fetched, now)
    IN  /\ cache' = pm.cache
        /\ gp' = [gp EXCEPT !.pc = "done", !.requests = requests,
                            !.errors = errors, !.result = pm.result]

\* The RSS2JSON request settles
GpRss2Json(r) ==
    /\ gp.pc = "rss2json"
    /\ LET step == rss2jsonStep(r, gp.url, now)
           requests == Append(gp.requests,
                              [proxy |-> "RSS2JSON", at |-> now,
                               articles |-> step.articles])
           errors == PushError(gp.errors, "RSS2JSON", step)
       IN  IF step.returned
           THEN GpFinish(Returned(step.articles), requests, errors)
           ELSE /\ gp' = [gp EXCEPT !.pc = "allorigins",
                                    !.requests = requests,
                                    !.errors = errors]
                /\ UNCHANGED cache
    /\ UNCHANGED <<sideVars, now, ticks, pureVars, rss, calls, appVars>>

\* The AllOrigins request settles
GpAllOrigins(r) ==
    /\ gp.pc = "allorigins"
    /\ LET step == allOriginsStep(r, gp.url, now)
           requests == Append(gp.requests,
                              [proxy |-> "AllOrigins", at |-> now,
                               articles |-> step.articles])
           errors == PushError(gp.errors, "AllOrigins", step)
       IN  GpFinish(IF step.returned THEN Returned(step.articles)
                    ELSE Thrown("All proxy attempts failed"),
                    requests, errors)
    /\ UNCHANGED <<sideVars, now, ticks, pureVars, rss, calls, appVars>>

\* The proxy of the request in flight never answers.  fetch is called
\* without a signal (lines 66-71 and 87), so nothing settles the promise:
\* fetchWithProxies stays at its await and neither returns nor throws
GpNoAnswer ==
    /\ gp.pc \in {"rss2json", "allorigins"}
    /\ gp' = [gp EXCEPT !.pc = "hung"]
    /\ UNCHANGED <<sideVars, now, ticks, pureVars, rss, calls, cache, appVars>>

\* Time passes between two steps of the Greek parser: 1 ms, or one ms
\* less than the cache lifetime
ElapseSteps == {1, cacheTimeout - 1}

Elapse(d) ==
    /\ rss.pc = "idle"
    /\ ticks < MaxElapse
    /\ now' = now + d
    /\ ticks' = ticks + 1
    /\ UNCHANGED <<sideVars, pureVars, fetchVars, cache, appVars>>

-----------------------------------------------------------------------------
(* Specification of the two parsers, used on their own                      *)

\* No application is constructed
IdleApp ==
    /\ articles = <<>>
    /\ stored = <<>>
    /\ bookmarks = <<>>
    /\ archived = <<>>
    /\ isLoading = FALSE
    /\ autoRefreshTimer = FALSE
    /\ runs = <<>>
    /\ lastCall = NoCall
    /\ lastMerge = NoMerge
    /\ budget = [refresh |-> 0, acts |-> 0, quota |-> 0]

InitFetchers ==
    /\ IdleSide
    /\ now = 0
    /\ ticks = 0
    /\ cache = [u \in FeedIds |-> NoEntry]
    /\ IdleFetchers
    /\ IdleApp

\* The two classes share no state: a behaviour runs parseRSSFeed once, or
\* the Greek parser MaxCalls times
NextFetchers ==
    \/ RssStart
    \/ \E r \in RssResponses : RssAttempt(r)
    \/ RssDelay
    \/ \E u \in FeedIds : GpCall(u)
    \/ \E r \in AppRss2Json : GpRss2Json(r)
    \/ \E r \in AppAllOrigins : GpAllOrigins(r)
    \/ GpNoAnswer
    \/ \E d \in ElapseSteps : Elapse(d)

SpecFetchers == InitFetchers /\ [][NextFetchers]_vars

-----------------------------------------------------------------------------
(* Properties of the two parsers                                            *)

Last(q) == q[Len(q)]

\* C1: a feed fetch tries the proxy strategies strictly in list order, one
\* at a time; no strategy is tried after one whose response normalised to
\* at least one article, and that strategy's articles are what the fetch
\* returns; the fetch fails only when every strategy was tried and failed.
\* Stated on the requests made so far by parseRSSFeed (eight proxies) and
\* by fetchWithProxies (two).
C1_StrategiesInOrder ==
    /\ \A k \in 1..Len(rss.attempts) : rss.attempts[k].proxy = k
    /\ \A k \in 1..(Len(rss.attempts) - 1) : rss.attempts[k].articles = <<>>
    /\ rss.pc = "done" =>
          IF Last(rss.attempts).articles # <<>>
          THEN rss.result = Returned(Last(rss.attempts).articles)
          ELSE rss.result.threw /\ Len(rss.attempts) = NumProxies
    /\ Len(gp.requests) <= 2
    /\ Len(gp.requests) >= 1 => gp.requests[1].proxy = "RSS2JSON"
    /\ Len(gp.requests) = 2 =>
          /\ gp.requests[1].articles = <<>>
          /\ gp.requests[2].proxy = "AllOrigins"
    /\ (gp.pc = "done" /\ gp.requests # <<>>) =>
          IF Last(gp.requests).articles # <<>>
          THEN gp.result = Returned(Last(gp.requests).articles)
          ELSE gp.result.threw /\ Len(gp.requests) = 2

\* C12: when every proxy strategy has failed for a feed, the fetch fails
\* with an error that carries the error of the last failed attempt and the
\* number of attempts made, and it never returns an empty list of articles.
\* For parseRSSFeed the error is the one of line 71; for the Greek parser
\* it is the one of fetchWithProxies, whose message carries the errors
\* pushed: one for every attempt made, the last one that of AllOrigins.
C12_FailureCarriesLastError ==
    /\ rss.pc = "done" =>
          IF rss.result.threw
          THEN /\ \A k \in 1..Len(rss.attempts) :
                     rss.attempts[k].articles = <<>>
               /\ rss.message.last = rss.lastError
               /\ rss.message.count = Len(rss.attempts)
          ELSE Len(rss.result.articles) > 0
    /\ gp.pc = "done" =>
          IF gp.result.threw
          THEN /\ gp.result.error = "All proxy attempts failed"
               /\ Len(gp.errors) = Len(gp.requests)
               /\ Last(gp.errors).proxy = Last(gp.requests).proxy
          ELSE Len(gp.result.articles) > 0

\* The same for parseRSSFeed alone, which does carry the last error and
\* the number of its proxies, all of them tried
RssFailureCarriesLastError ==
    rss.pc = "done" =>
        IF rss.result.threw
        THEN /\ \A k \in 1..Len(rss.attempts) :
                   rss.attempts[k].articles = <<>>
             /\ rss.message.last = rss.lastError
             /\ rss.message.count = Len(rss.attempts)
             /\ rss.message.count = NumProxies
        ELSE Len(rss.result.articles) > 0

\* C13: every failure of a strategy (a timeout or an exception, a status
\* that is not ok, an unexpected JSON shape, no article) is recorded and the
\* fetch moves on to the next strategy: when the k-th strategy succeeds
\* exactly k-1 failures have been recorded.  parseRSSFeed records a failure
\* in its catch block (failures counts them), fetchWithProxies in errors.
C13_FailuresRecorded ==
    /\ rss.pc = "delay" => rss.failures = Len(rss.attempts)
    /\ (rss.pc = "done" /\ ~rss.result.threw) =>
          /\ rss.failures = Len(rss.attempts) - 1
          /\ rss.result.articles = Last(rss.attempts).articles
    /\ gp.pc = "allorigins" => Len(gp.errors) = Len(gp.requests)
    /\ (gp.pc = "done" /\ gp.requests # <<>> /\ ~gp.result.threw) =>
          /\ Len(gp.errors) = Len(gp.requests) - 1
          /\ gp.result.articles = Last(gp.requests).articles

\* The same for parseRSSFeed alone, where every failed pass goes through
\* the catch block
RssFailuresRecorded ==
    /\ rss.pc = "delay" => rss.failures = Len(rss.attempts)
    /\ (rss.pc = "done" /\ ~rss.result.threw) =>
          /\ rss.failures = Len(rss.attempts) - 1
          /\ rss.result.articles = Last(rss.attempts).articles
    /\ (rss.pc = "done" /\ rss.result.threw) =>
          rss.failures = Len(rss.attempts)

\* C16: every proxy request is made under a fixed timeout, so that the
\* fetch of one feed always ends, with articles or with an error, after at
\* most one request to each proxy, even when a proxy never answers.
\* parseRSSFeed aborts a request after FetchTimeout and goes on; a request
\* of fetchWithProxies that gets no answer leaves the call hung.
C16_FetchTerminates ==
    /\ Len(rss.attempts) <= NumProxies
    /\ \A a, b \in 1..Len(rss.attempts) :
          a < b => rss.attempts[a].proxy < rss.attempts[b].proxy
    /\ rss.pc = "fetch" => ENABLED RssAttempt(RespTimeout)
    /\ Len(gp.requests) <= 2
    /\ gp.pc # "hung"

\* The same for parseRSSFeed alone: a request that gets no answer is
\* settled by the abort, and no proxy is asked twice
RssFetchTerminates ==
    /\ Len(rss.attempts) <= NumProxies
    /\ \A a, b \in 1..Len(rss.attempts) :
          a < b => rss.attempts[a].proxy < rss.attempts[b].proxy
    /\ rss.pc = "fetch" => ENABLED RssAttempt(RespTimeout)
    /\ rss.pc = "delay" => ENABLED RssDelay

\* C17: after the failure of the pass for proxy i (from 0) parseRSSFeed
\* waits Min(1000 * (i + 1), 3000) ms before the next pass: the delays do
\* not decrease, none is above 3000 ms, one follows every failed pass but
\* that of the last proxy, and none follows a pass that gave articles.
\* waited holds the delays that are over, delay the one in progress.
C17_ProgressiveDelay ==
    /\ \A k \in 1..Len(rss.waited) :
          /\ rss.waited[k] = Min(1000 * ((k - 1) + 1), 3000)
          /\ rss.waited[k] <= 3000
          /\ k > 1 => rss.waited[k - 1] <= rss.waited[k]
          /\ rss.attempts[k].articles = <<>>
    /\ rss.pc = "fetch" => Len(rss.waited) = Len(rss.attempts)
    /\ rss.pc = "delay" =>
          /\ Len(rss.waited) = Len(rss.attempts) - 1
          /\ Last(rss.attempts).articles = <<>>
          /\ rss.delay = Min(1000 * ((Len(rss.attempts) - 1) + 1), 3000)
    /\ rss.pc = "done" =>
          /\ Len(rss.waited) = Len(rss.attempts) - 1
          /\ rss.delay = 0
          /\ rss.result.threw => Len(rss.attempts) = NumProxies
    /\ (rss.pc \in {"fetch", "delay"} /\ rss.failures > 0) =>
          Len(rss.waited) + (IF rss.pc = "delay" THEN 1 ELSE 0)
              = rss.failures

\* C17 witness: the fifth proxy gave articles after four failed passes,
\* which were followed by delays of 1, 2, 3 and 3 seconds
C17_Witness ==
    /\ rss.pc = "done"
    /\ ~rss.result.threw
    /\ rss.waited = <<1000, 2000, 3000, 3000>>
    /\ rss.delay = 0

\* C1 witness: parseRSSFeed returned the articles of the third proxy after
\* the first two had failed
C1_Witness ==
    /\ rss.pc = "done"
    /\ ~rss.result.threw
    /\ Len(rss.attempts) = 3
    /\ rss.result.articles = rss.attempts[3].articles
    /\ Len(rss.result.articles) > 0

\* C8: when parseFeed(url) is called and the cache holds an entry for url
\* younger than cacheTimeout, the call returns exactly the cached articles
\* and makes no request; an entry of that age or older is not returned: a
\* call that returns then made a request and returns other articles.
C8_FreshEntryServed ==
    gp.pc # "idle" =>
        IF gp.seen # NoEntry /\ gp.calledAt - gp.seen.timestamp < cacheTimeout
        THEN /\ gp.pc = "done"
             /\ gp.requests = <<>>
             /\ gp.result = Returned(gp.seen.articles)
        ELSE (gp.pc = "done" /\ ~gp.result.threw) =>
                /\ gp.requests # <<>>
                /\ gp.result.articles = Last(gp.requests).articles
                /\ gp.seen # NoEntry =>
                      gp.result.articles # gp.seen.articles

\* C8 witness: a call answered from an entry one ms short of the lifetime
C8_Witness ==
    /\ gp.pc = "done"
    /\ gp.seen # NoEntry
    /\ gp.calledAt - gp.seen.timestamp = cacheTimeout - 1
    /\ gp.requests = <<>>
    /\ gp.result = Returned(gp.seen.articles)

\* C9: a parseFeed(url) that finds no entry or an expired one makes
\* requests; when it returns, the cache holds for url the articles it
\* returns with the current time as timestamp; and a parseFeed(url) that
\* follows it, at once or within the lifetime, is answered from the cache
\* with the same articles.
C9_MissStoresThenHit ==
    [][ /\ (gp'.pc = "done"
              /\ (gp'.seen = NoEntry
                    \/ gp'.calledAt - gp'.seen.timestamp >= cacheTimeout))
           => gp'.requests # <<>>
        /\ (gp.pc \in {"rss2json", "allorigins"} /\ gp'.pc = "done"
              /\ ~gp'.result.threw)
           => cache'[gp.url] = [articles |-> gp'.result.articles,
                                timestamp |-> now']
        /\ (gp.pc = "done" /\ gp.requests # <<>> /\ ~gp.result.threw
              /\ calls' = calls + 1 /\ gp'.url = gp.url
              /\ now - Last(gp.requests).at < cacheTimeout)
           => /\ gp'.pc = "done"
              /\ gp'.requests = <<>>
              /\ gp'.result = gp.result
      ]_vars

\* C9 witness: a call answered from an entry that was stored in the same
\* ms, after the previous entry had expired
C9_Witness ==
    /\ gp.pc = "done"
    /\ gp.requests = <<>>
    /\ gp.seen # NoEntry
    /\ gp.seen.timestamp = gp.calledAt
    /\ gp.calledAt >= cacheTimeout
    /\ gp.result = Returned(gp.seen.articles)

\* C28: parseFeed writes to the cache only when its fetch gave at least one
\* article, and then only the entry of its url: a call whose fetch fails or
\* gives no article leaves every entry as it was, articles and timestamp;
\* no entry ever holds an empty list of articles.
C28_CacheWrittenOnSuccess ==
    /\ [](\A u \in FeedIds :
            cache[u] # NoEntry => Len(cache[u].articles) > 0)
    /\ [][ /\ cache' # cache =>
                /\ gp.pc \in {"rss2json", "allorigins"}
                /\ gp'.pc = "done"
                /\ gp'.requests # <<>>
                /\ ~gp'.result.threw
                /\ Len(gp'.result.articles) > 0
                /\ cache' = [cache EXCEPT ![gp.url] =
                                [articles |-> gp'.result.articles,
                                 timestamp |-> now']]
           /\ (gp.pc \in {"rss2json", "allorigins"} /\ gp'.pc = "done"
                 /\ gp'.result.threw) => cache' = cache
         ]_vars

\* C28 witness: the entry of the url had expired, the fetch that followed
\* gave no article, and the entry is the one the call found
C28_Witness ==
    /\ gp.pc = "done"
    /\ gp.result = Thrown("No articles found in feed")
    /\ gp.seen # NoEntry
    /\ gp.calledAt - gp.seen.timestamp >= cacheTimeout
    /\ cache[gp.url] = gp.seen

-----------------------------------------------------------------------------
(* The article id as a function of the item and the clock                   *)

PureTitles == {<<65>>, <<>>, <<925, 941, 945>>, <<LT, 98, GT, 65>>}
PureLinks == {<<120>>, <<>>}
PureDates == {<<51, 48>>, <<>>, <<110, 111>>}
PureTimes == {0, 1, cacheTimeout}

PureItems ==
    { Item(t, l, d, <<100>>) : t \in PureTitles, l \in PureLinks,
                               d \in PureDates }

\* The ids the four item parsers give one item in a fetch cycle at time t
IdsAt(item, t) ==
    [rss2json |-> GreekArticle(item, 1, t, 1).id,
     xml      |-> parseXMLItem(item, 1, t, 1).id,
     rssJson  |-> parseRSS2JSONItem(item, FeedUrl(1), t).article.id,
     rssXml   |-> parseItem(item, FeedUrl(1), t).article.id]

InitPure ==
    /\ IdleSide
    /\ pin \in [item : PureItems, t1 : PureTimes, t2 : PureTimes]
    /\ pout = NoInput
    /\ now = 0
    /\ ticks = 0
    /\ cache = [u \in FeedIds |-> NoEntry]
    /\ rss = RssIdle
    /\ gp = GpIdle
    /\ calls = 0
    /\ IdleApp

\* Two fetch cycles of the same item, at the times t1 and t2
TwoCycles ==
    /\ pout = NoInput
    /\ pout' = [first |-> IdsAt(pin.item, pin.t1),
                second |-> IdsAt(pin.item, pin.t2)]
    /\ UNCHANGED <<sideVars, now, ticks, pin, fetchVars, cache, appVars>>

NextPure == TwoCycles

SpecPure == InitPure /\ [][NextPure]_vars

\* C2: the article id is a function of title, link and publish time only:
\* two fetch cycles of the same item, run at any two times, give it the
\* same id.
C2_IdIgnoresClock == pout # NoInput => pout.first = pout.second

-----------------------------------------------------------------------------
(* The normalisers on their own: one document, or one date text, at a time *)

\* RSSParser.parseFeed of js/script.js after the fetch (lines 236-263): the
\* item elements only, and an item is kept only if it has a title
scriptParseFeed(doc) ==
    IF ~doc.wellFormed THEN Thrown("Invalid RSS feed format")
    ELSE Returned(SelectSeq([k \in 1..Len(doc.items) |->
                                [title |-> Trim(doc.items[k].title),
                                 description |-> Trim(doc.items[k].description),
                                 link |-> Trim(doc.items[k].link),
                                 pubDate |-> Trim(doc.items[k].pubDate)]],
                            LAMBDA a : a.title # <<>>))

\* Elements a feed may hold: an item without a title, one without a link,
\* an Atom entry (summary, content, link href, published, updated), an
\* item with guid, content and updated only, an empty element, and an item
\* with a padded title and a text that is no date
ElemNoTitle == Item(<<>>, <<120>>, <<51, 48>>, <<100>>)
ElemNoLink  == Item(<<66>>, <<>>, <<49, 48>>, <<100>>)
ElemAtom    == Elem(<<67>>, <<>>, <<115>>, <<99>>, <<>>, <<>>, <<104>>,
                    <<>>, <<52, 48>>, <<53, 48>>)
ElemGuid    == Elem(<<68>>, <<>>, <<>>, <<99>>, <<>>, <<103>>, <<104>>,
                    <<>>, <<>>, <<53, 48>>)
ElemBare    == Elem(<<>>, <<>>, <<>>, <<>>, <<>>, <<>>, <<>>, <<>>, <<>>,
                    <<>>)
ElemPadded  == Item(<<SP, 65, SP>>, <<120>>, <<110, 111>>, <<100>>)

NormElems == {ItemA, ItemG, ElemNoTitle, ElemNoLink, ElemAtom, ElemGuid,
              ElemBare, ElemPadded}

\* Elements in one document
MaxItems == 2

NormLists ==
    UNION { [1..n -> NormElems] : n \in 0..MaxItems }

\* The documents: well-formed ones with items, with entries, with both;
\* and texts that do not parse as XML, by what the later parses show
NormDocs ==
    { WellFormed(l) : l \in NormLists }
    \cup { AtomDoc(<<ElemAtom>>), AtomDoc(<<ElemAtom, ElemGuid>>),
           [WellFormed(<<ItemA>>) EXCEPT !.entries = <<ElemAtom>>],
           NoDoc,
           XmlDoc(FALSE, <<>>, <<ItemA, ItemG>>, FALSE, <<>>),
           XmlDoc(FALSE, <<>>, <<ElemNoLink>>, TRUE, <<ItemA>>),
           XmlDoc(FALSE, <<>>, <<>>, TRUE, <<ElemNoTitle, ItemA>>),
           XmlDoc(FALSE, <<>>, <<>>, TRUE, <<>>) }

NormTimes == {0, 7}

InitNormalize ==
    /\ IdleSide
    /\ pin = NoInput
    /\ pout = NoInput
    /\ now = 0
    /\ ticks = 0
    /\ cache = [u \in FeedIds |-> NoEntry]
    /\ rss = RssIdle
    /\ gp = GpIdle
    /\ calls = 0
    /\ IdleApp

\* One document goes through the normalisers at time t
NormalizeFeed(doc, t) ==
    /\ pin' = [fn |-> "feed", doc |-> doc, t |-> t]
    /\ pout' = [safely |-> parseXMLSafely(doc),
                rss    |-> parseXMLContent(doc, FeedUrl(1), t),
                greek  |-> parseXMLContentGreek(doc, 1, t),
                script |-> scriptParseFeed(doc)]
    /\ UNCHANGED <<sideVars, now, ticks, fetchVars, cache, appVars>>

\* item.pubDate of an item that has none: undefined
Absent == <<-1>>

\* What one of the anchored formats of parseDate (backend/server.js, lines
\* 114-118) matches at the start of the text: in the date syntax of the
\* model, the leading digits and slashes
IsDateChar(c) == IsDigit(c) \/ c = 47

RECURSIVE FormatMatch(_)
FormatMatch(s) ==
    IF s = <<>> THEN <<>>
    ELSE IF ~IsDateChar(s[1]) THEN <<>>
    ELSE <<s[1]>> \o FormatMatch(Tail(s))

\* The try block of parseDate (backend/server.js, lines 107-131): the
\* time returned, or threw for the TypeError of undefined.match and for
\* the Error of line 131
serverParseDateTry(dateString, t) ==
    IF DateParses(dateString)
    THEN [threw |-> FALSE, value |-> DateValue(dateString)]
    ELSE IF dateString = Absent THEN [threw |-> TRUE, value |-> -1]
    ELSE IF DateParses(FormatMatch(dateString))
    THEN [threw |-> FALSE, value |-> DateValue(FormatMatch(dateString))]
    ELSE [threw |-> TRUE, value |-> -1]

\* parseDate without its catch block
serverParseDateNoCatch(dateString, t) == serverParseDateTry(dateString, t)

\* parseDate of backend/server.js: the catch block returns the clock
serverParseDate(dateString, t) ==
    IF serverParseDateTry(dateString, t).threw
    THEN [threw |-> FALSE, value |-> t]
    ELSE serverParseDateTry(dateString, t)

\* Texts given to the date parsers: none, the empty one, a date, a text
\* that is no date, a date followed by other text, and a text that has
\* the form of a date and is none
NormDateTexts ==
    {Absent, <<>>, <<51, 48>>, <<110, 111>>, <<50, 48, SP, 120>>,
     <<50, 53, 47, 49>>}

\* One text goes through the three date parsers at time t
ParseTimestamp(dateString, t) ==
    /\ pin' = [fn |-> "date", s |-> dateString, t |-> t]
    /\ pout' = [rss    |-> parseDate(dateString, t),
                greek  |-> parseGreekDate(dateString, t),
                server |-> serverParseDate(dateString, t)]
    /\ UNCHANGED <<sideVars, now, ticks, fetchVars, cache, appVars>>

\* The six entities cleanText decodes: &nbsp; &amp; &lt; &gt; &quot; &#39;
Entities ==
    {<<38, 110, 98, 115, 112, 59>>, <<38, 97, 109, 112, 59>>,
     <<38, 108, 116, 59>>, <<38, 103, 116, 59>>,
     <<38, 113, 117, 111, 116, 59>>, <<38, 35, 51, 57, 59>>}

\* '<b>Φόρος &amp; ΦΠΑ</b>' and 'Φόρος & ΦΠΑ'
TaxMarkup ==
    <<60, 98, 62, 934, 972, 961, 959, 962, 32, 38, 97, 109, 112, 59, 32,
      934, 928, 913, 60, 47, 98, 62>>
TaxPlain == <<934, 972, 961, 959, 962, 32, 38, 32, 934, 928, 913>>

\* Texts of a title or description element: plain, with tags, entities
\* and runs of white space, and with the entities of a tag
NormTexts ==
    {<<>>, <<65>>, TaxMarkup,
     <<SP, 65, SP, SP, 10, 66, SP>>,
     <<60, 105, 62, 65, 38, 110, 98, 115, 112, 59, 66>>,
     <<38, 108, 116, 59, 98, 38, 103, 116, 59, 65>>,
     <<65, 38, 35, 51, 57, 59, 38, 113, 117, 111, 116, 59>>}

\* One text goes through the two text cleaners
CleanText(text) ==
    /\ pin' = [fn |-> "text", s |-> text]
    /\ pout' = [rss |-> cleanText(text), greek |-> cleanGreekText(text)]
    /\ UNCHANGED <<sideVars, now, ticks, fetchVars, cache, appVars>>

NextNormalize ==
    \/ \E doc \in NormDocs, t \in NormTimes : NormalizeFeed(doc, t)
    \/ \E text \in NormTexts : CleanText(text)
    \/ \E d \in NormDateTexts, t \in NormTimes : ParseTimestamp(d, t)

SpecNormalize == InitNormalize /\ [][NextNormalize]_vars

\* A document was normalised
FeedDone == pin # NoInput /\ pin.fn = "feed"

\* arts are the values of f on the elements of items that pass ok, one for
\* each, in the order of items
IsFilterMap(arts, items, ok(_), f(_)) ==
    \E idx \in [1..Len(arts) -> 1..Len(items)] :
        /\ \A a, b \in 1..Len(arts) : a < b => idx[a] < idx[b]
        /\ \A k \in 1..Len(items) :
              ok(items[k]) <=> \E a \in 1..Len(arts) : idx[a] = k
        /\ \A a \in 1..Len(arts) : arts[a] = f(items[idx[a]])

ParseOrder == <<"xml", "html", "repaired xml">>

\* C15: parseXMLSafely makes at most three parses, in the order XML, HTML,
\* XML of the repaired text; the HTML parse is made exactly when the XML
\* parse reported an error, the parse of the repaired text exactly when
\* the HTML result has no item or entry element; it throws exactly when
\* the three of them fail; and the item (else entry) elements of the
\* parse that succeeded are the ones extractArticles turns into articles.
C15_ThreeParseAttempts ==
    FeedDone =>
        /\ Len(pout.safely.attempts) \in 1..3
        /\ pout.safely.attempts
              = SubSeq(ParseOrder, 1, Len(pout.safely.attempts))
        /\ Len(pout.safely.attempts) >= 2 <=> ~pin.doc.wellFormed
        /\ Len(pout.safely.attempts) = 3
              <=> (~pin.doc.wellFormed /\ pin.doc.htmlItems = <<>>)
        /\ pout.safely.threw
              <=> /\ ~pin.doc.wellFormed
                  /\ pin.doc.htmlItems = <<>>
                  /\ ~pin.doc.repairable
        /\ pout.rss.threw <=> pout.safely.threw
        /\ ~pout.safely.threw =>
              /\ pout.safely.items
                    = CASE Len(pout.safely.attempts) = 1
                             -> SelectItems(pin.doc)
                        [] Len(pout.safely.attempts) = 2
                             -> pin.doc.htmlItems
                        [] OTHER -> pin.doc.repairedItems
              /\ pout.rss.articles
                    = extractArticles(pout.safely.items, FeedUrl(1), pin.t)

\* C15 witness: a text that is no XML, whose HTML parse shows no item, and
\* whose repaired text parses with two items, took the three parses and
\* gave the two articles
C15_Witness ==
    /\ FeedDone
    /\ pin.doc = XmlDoc(FALSE, <<>>, <<>>, TRUE, <<ElemNoTitle, ItemA>>)
    /\ pout.safely.attempts = ParseOrder
    /\ ~pout.rss.threw
    /\ Len(pout.rss.articles) = 2

\* The item has no title, no link: the elements are absent or empty
HasNoTitle(e) == Trim(e.title) = <<>>
HasNoLink(e) == Trim(e.link) = <<>> /\ Trim(e.guid) = <<>> /\ e.href = <<>>

\* The items of items that RSSParser.parseItem parses, in their order
Parseable(items, t) ==
    SelectSeq(items, LAMBDA e : ~parseItem(e, FeedUrl(1), t).threw)

\* Every item of items has its article in arts, at the same place, with
\* the placeholder when it has no title and an empty link when it has none
KeptWithPlaceholder(arts, items, title(_), link(_), placeholder) ==
    /\ Len(arts) = Len(items)
    /\ \A k \in 1..Len(items) :
          /\ HasNoTitle(items[k]) => title(arts[k]) = placeholder
          /\ HasNoLink(items[k]) => link(arts[k]) = <<>>

\* RSSParser.parseItem and GreekTaxRSSParser.parseXMLItem drop no item of
\* a well-formed document
ParsersKeepItems ==
    /\ ~pout.rss.threw
    /\ KeptWithPlaceholder(pout.rss.articles,
                           Parseable(SelectItems(pin.doc), pin.t),
                           LAMBDA a : a.title, LAMBDA a : a.source_url,
                           Untitled)
    /\ ~pout.greek.threw
    /\ KeptWithPlaceholder(pout.greek.articles, SelectItems(pin.doc),
                           LAMBDA a : a.title, LAMBDA a : a.link, NoTitle)

\* C18 as stated: no item of a feed is dropped for having no title or no
\* link; an item without a title becomes an article with the placeholder
\* title, one without a link an article with an empty link, and there are
\* as many articles as items that parse.  For parseItem, parseXMLItem and
\* the parseFeed of js/script.js, which has no placeholder to give.
C18_NoItemDropped ==
    (FeedDone /\ pin.doc.wellFormed) =>
        /\ ParsersKeepItems
        /\ ~pout.script.threw
        /\ Len(pout.script.articles) = Len(pin.doc.items)

\* C18 amended: parseItem and parseXMLItem drop no item for having no
\* title or no link (placeholder title, empty link, as many articles as
\* items that parse); the parseFeed of js/script.js keeps an item without
\* a link, with an empty link, but leaves out every item without a title,
\* so that it returns as many articles as there are items with a title.
C18_UntitledDroppedByScriptOnly ==
    (FeedDone /\ pin.doc.wellFormed) =>
        /\ ParsersKeepItems
        /\ ~pout.script.threw
        /\ KeptWithPlaceholder(pout.script.articles,
               SelectSeq(pin.doc.items, LAMBDA e : ~HasNoTitle(e)),
               LAMBDA a : a.title, LAMBDA a : a.link, <<>>)
        /\ \A k \in 1..Len(pout.script.articles) :
              pout.script.articles[k].title # <<>>

\* C18 witness: of an item without a title and an item without a link
\* parseItem and parseXMLItem made two articles, the first one with the
\* placeholder title and the second one with an empty link, and the
\* parseFeed of js/script.js made one, that of the second
C18_Witness ==
    /\ FeedDone
    /\ pin.doc = WellFormed(<<ElemNoTitle, ElemNoLink>>)
    /\ Len(pout.rss.articles) = 2
    /\ pout.rss.articles[1].title = Untitled
    /\ pout.rss.articles[2].source_url = <<>>
    /\ Len(pout.greek.articles) = 2
    /\ pout.greek.articles[1].title = NoTitle
    /\ pout.greek.articles[2].link = <<>>
    /\ Len(pout.script.articles) = 1
    /\ pout.script.articles[1].title = <<66>>
    /\ pout.script.articles[1].link = <<>>

\* The fallback chains on an element: the first value that is not empty
ChainDescription(e) ==
    IF Trim(e.description) # <<>> THEN Trim(e.description)
    ELSE IF Trim(e.summary) # <<>> THEN Trim(e.summary)
    ELSE Trim(e.content)

ChainLink(e) ==
    IF Trim(e.link) # <<>> THEN Trim(e.link)
    ELSE IF Trim(e.guid) # <<>> THEN Trim(e.guid)
    ELSE e.href

\* The publish time, t being the current time, taken as well when the
\* text found is no date
ChainTime(e, t) ==
    IF DateParses(Trim(e.pubDate)) THEN DateValue(Trim(e.pubDate))
    ELSE IF Trim(e.pubDate) # <<>> THEN t
    ELSE IF DateParses(Trim(e.published)) THEN DateValue(Trim(e.published))
    ELSE IF Trim(e.published) # <<>> THEN t
    ELSE IF DateParses(Trim(e.updated)) THEN DateValue(Trim(e.updated))
    ELSE t

\* The elements read: entry elements only when there is no item element
ElementsRead(doc) == IF doc.items # <<>> THEN doc.items ELSE doc.entries

\* The articles of RSSParser follow the chains
RssFallbackChains ==
    (FeedDone /\ pin.doc.wellFormed) =>
        /\ Len(pout.rss.articles)
              = Len(Parseable(ElementsRead(pin.doc), pin.t))
        /\ \A k \in 1..Len(pout.rss.articles) :
              /\ pout.rss.articles[k].description
                    = cleanText(ChainDescription(
                          Parseable(ElementsRead(pin.doc), pin.t)[k]))
              /\ pout.rss.articles[k].source_url
                    = ChainLink(Parseable(ElementsRead(pin.doc), pin.t)[k])
              /\ pout.rss.articles[k].pub_date
                    = ChainTime(Parseable(ElementsRead(pin.doc), pin.t)[k],
                                pin.t)

\* C19: for every item the normaliser takes the first value that is not
\* empty of each chain: the description from description, else summary,
\* else content; the link from the text of link, else guid, else the href
\* attribute of the link element; the publish time from pubDate, else
\* published, else updated, else the current time; and it reads the entry
\* elements only when the document has no item element.  For parseItem
\* of RSSParser and parseXMLItem of the Greek parser.
C19_FallbackChains ==
    /\ RssFallbackChains
    /\ (FeedDone /\ pin.doc.wellFormed) =>
          /\ Len(pout.greek.articles) = Len(ElementsRead(pin.doc))
          /\ \A k \in 1..Len(pout.greek.articles) :
                /\ pout.greek.articles[k].description
                      = cleanGreekText(
                            ChainDescription(ElementsRead(pin.doc)[k]))
                /\ pout.greek.articles[k].link
                      = ChainLink(ElementsRead(pin.doc)[k])
                /\ pout.greek.articles[k].pubDate
                      = ChainTime(ElementsRead(pin.doc)[k], pin.t)

\* A text went through the date parsers
DateDone == pin # NoInput /\ pin.fn = "date"

\* C20: the timestamp parser never raises: for every input (none, empty,
\* a date, no date) it returns a valid time, which is the time parsed
\* when the input can be parsed and the current time otherwise.  For
\* parseDate of RSSParser, parseGreekDate, and parseDate of
\* backend/server.js, which parses the text at the start of the input
\* when the whole input is no date.  A time is valid when it is a number
\* of ms that toISOString writes.
C20_TimestampNeverRaises ==
    DateDone =>
        /\ ~pout.server.threw
        /\ pout.rss \in Nat
        /\ pout.greek \in Nat
        /\ pout.server.value \in Nat
        /\ IF DateParses(pin.s)
           THEN /\ pout.rss = DateValue(pin.s)
                /\ pout.greek = DateValue(pin.s)
                /\ pout.server.value = DateValue(pin.s)
           ELSE /\ pout.rss = pin.t
                /\ pout.greek = pin.t
                /\ pout.server.value
                      = IF DateParses(FormatMatch(pin.s))
                        THEN DateValue(FormatMatch(pin.s))
                        ELSE pin.t

\* C20 witness: at time 7 a text that has the form of a date and is none
\* made the try block of the server's parseDate throw, and the three
\* parsers returned the time 7
C20_Witness ==
    /\ DateDone
    /\ pin.s = <<50, 53, 47, 49>>
    /\ pin.t = 7
    /\ serverParseDateTry(pin.s, pin.t).threw
    /\ pout.rss = 7
    /\ pout.greek = 7
    /\ pout.server = [threw |-> FALSE, value |-> 7]

\* A text went through the text cleaners
TextDone == pin # NoInput /\ pin.fn = "text"

\* The text holds a tag, one of the six entities
HasTag(s) == \E i \in 1..Len(s) : s[i] = LT /\ NextGT(s, i + 1) > 0
HasEntity(s) ==
    \E i \in 1..Len(s) : \E e \in Entities : HasPrefixAt(s, i, e)

\* Plain text: no tag, none of the entities, no white space but single
\* spaces, none at the ends
IsPlain(s) ==
    /\ ~HasTag(s)
    /\ ~HasEntity(s)
    /\ \A i \in 1..Len(s) : IsSpace(s[i]) => s[i] = SP
    /\ \A i \in 1..(Len(s) - 1) : ~(s[i] = SP /\ s[i + 1] = SP)
    /\ s # <<>> => (s[1] # SP /\ s[Len(s)] # SP)

\* C21: the text cleaner applied to title and description returns plain
\* text: every tag removed, the entities &nbsp; &amp; &lt; &gt; &quot;
\* &#39; decoded, runs of white space collapsed to one space, the ends
\* trimmed; '<b>Φόρος &amp; ΦΠΑ</b>' gives 'Φόρος & ΦΠΑ'; so that no title
\* or description holds a tag or one of those entities.  For cleanText of
\* RSSParser and cleanGreekText of the Greek parser.
C21_CleanTextPlain ==
    TextDone =>
        /\ IsPlain(pout.rss)
        /\ IsPlain(pout.greek)
        /\ pin.s = TaxMarkup => (pout.rss = TaxPlain /\ pout.greek = TaxPlain)

\* What the code does with the example: cleanText gives the plain text,
\* cleanGreekText, which decodes no entity, 'Φόρος &amp; ΦΠΑ'; and
\* cleanText, which removes the tags before it decodes, turns the
\* entities of a tag into the tag
CleanTextExample ==
    TextDone =>
        /\ pin.s = TaxMarkup =>
              /\ pout.rss = TaxPlain
              /\ pout.greek = SubSeq(TaxMarkup, 4, 18)
        /\ pin.s = <<38, 108, 116, 59, 98, 38, 103, 116, 59, 65>> =>
              pout.rss = <<LT, 98, GT, 65>>
        /\ ~HasTag(pout.greek)

-----------------------------------------------------------------------------
(* backend/server.js: start, connectDB, GET /api/health, GET /api/aade-news *)

\* No response was sent by the latest step
NoResp == [route |-> "none"]

\* const maxRetries = 3 of connectDB
maxRetries == 3

\* Math.pow(2, n)
RECURSIVE Pow2(_)
Pow2(n) == IF n = 0 THEN 1 ELSE 2 * Pow2(n - 1)

\* The catch block of connectDB with a delay of 1000 * retryCount ms
connectDBAfterFailureLinear(retryCount) ==
    IF retryCount + 1 = maxRetries
    THEN [conn |-> "failed", retryCount |-> retryCount + 1, delay |-> 0]
    ELSE [conn |-> "waiting", retryCount |-> retryCount + 1,
          delay |-> Min(1000 * (retryCount + 1), 10000)]

\* The catch block of connectDB (lines 83-95): retryCount++, the throw at
\* maxRetries, else the delay before the next pass of the loop
connectDBAfterFailure(retryCount) ==
    IF retryCount + 1 = maxRetries
    THEN [conn |-> "failed", retryCount |-> retryCount + 1, delay |-> 0]
    ELSE [conn |-> "waiting", retryCount |-> retryCount + 1,
          delay |-> Min(1000 * Pow2(retryCount + 1), 10000)]

\* The module is loaded (lines 41-47) and, with the four DB_ variables
\* set, app.listen runs its callback, which calls connectDB; with one of
\* them missing the process exits with code 1
ServerStart(envSet) ==
    /\ srv = SrvOff
    /\ srv' = IF envSet
              THEN [pc |-> "listening", pool |-> FALSE, conn |-> "connecting",
                    retryCount |-> 0, attempts |-> 0, waits |-> <<>>,
                    delay |-> 0, resp |-> NoResp]
              ELSE [pc |-> "exited", pool |-> FALSE, conn |-> "none",
                    retryCount |-> 0, attempts |-> 0, waits |-> <<>>,
                    delay |-> 0, resp |-> NoResp]
    /\ UNCHANGED <<now, ticks, pureVars, fetchVars, cache, appVars, scr>>

\* sql.connect(dbConfig) settles: pool is set, or the catch block runs;
\* the throw of line 89 is caught by the callback of app.listen (lines
\* 395-399)
DbConnect(ok) ==
    /\ srv.pc = "listening"
    /\ srv.conn = "connecting"
    /\ srv' = IF ok
              THEN [srv EXCEPT !.pool = TRUE, !.conn = "connected",
                               !.attempts = @ + 1, !.resp = NoResp]
              ELSE [srv EXCEPT
                       !.conn = connectDBAfterFailure(srv.retryCount).conn,
                       !.retryCount =
                           connectDBAfterFailure(srv.retryCount).retryCount,
                       !.delay = connectDBAfterFailure(srv.retryCount).delay,
                       !.attempts = @ + 1, !.resp = NoResp]
    /\ UNCHANGED <<now, ticks, pureVars, fetchVars, cache, appVars, scr>>

\* The timer of line 94 fires and the loop makes its next pass
DbRetry ==
    /\ srv.pc = "listening"
    /\ srv.conn = "waiting"
    /\ srv' = [srv EXCEPT !.conn = "connecting",
                          !.waits = Append(@, srv.delay), !.delay = 0,
                          !.resp = NoResp]
    /\ UNCHANGED <<now, ticks, pureVars, fetchVars, cache, appVars, scr>>

\* GET /api/health (lines 137-149); dbAnswers tells whether the query of
\* line 140 resolves
healthResponse(pool, dbAnswers) ==
    IF pool
    THEN IF dbAnswers
         THEN [status |-> 200, health |-> "healthy",
               database |-> "connected"]
         ELSE [status |-> 503, health |-> "unhealthy",
               database |-> "none"]
    ELSE [status |-> 200, health |-> "healthy",
          database |-> "disconnected"]

GetHealth(dbAnswers) ==
    /\ srv.pc = "listening"
    /\ srv' = [srv EXCEPT !.resp =
                  [route |-> "health",
                   asked |-> [dbAnswers |-> dbAnswers],
                   answer |-> healthResponse(srv.pool, dbAnswers)]]
    /\ UNCHANGED <<now, ticks, pureVars, fetchVars, cache, appVars, scr>>

\* A query parameter: missing, a text parseInt makes NaN of, or a text
\* parseInt makes n of
QAbsent == [kind |-> "absent", n |-> 0]
QText == [kind |-> "text", n |-> 0]
QNum(n) == [kind |-> "number", n |-> n]

\* parseInt(q) || dflt: NaN and 0 are falsy
ParseIntOr(q, dflt) ==
    IF q.kind = "number" /\ q.n # 0 THEN q.n ELSE dflt

\* Array.prototype.slice(start, end): a negative index counts from the
\* end of the array
SliceIndex(len, k) ==
    IF k < 0 THEN (IF len + k < 0 THEN 0 ELSE len + k)
    ELSE IF k > len THEN len ELSE k

JsSlice(list, start, end) ==
    SubSeq(list, SliceIndex(Len(list), start) + 1,
           SliceIndex(Len(list), end))

\* Math.ceil(a / b) for a >= 0 and b # 0
CeilDiv(a, b) ==
    IF b > 0 THEN (a + b - 1) \div b ELSE -(a \div (-b))

\* The article made of an item of the feed (lines 198-207), the tracking
\* fields left out
serverArticle(item, t) ==
    [title |-> item.title, description |-> item.description,
     link |-> item.link,
     pubDate |-> serverParseDate(item.pubDate, t).value, source |-> "rss"]

\* The slice and the pagination object of the fallback (lines 209-218)
paginate(list, page, pageSize) ==
    [articles |-> JsSlice(list, (page - 1) * pageSize,
                          (page - 1) * pageSize + pageSize),
     page |-> page, pageSize |-> pageSize, totalItems |-> Len(list),
     totalPages |-> CeilDiv(Len(list), pageSize)]

\* The rows of Articles with FeedID = 1, newest first
DbRows ==
    <<[title |-> <<82>>, description |-> <<>>, link |-> <<114>>,
       pubDate |-> 9, source |-> "database"]>>

\* GET /api/aade-news (lines 152-232).  With pool set the two queries run:
\* they reject when the database does not answer, and SQL Server rejects
\* an OFFSET below 0 and a FETCH NEXT below 1.  Without pool the feed is
\* fetched: feed.ok tells whether parser.parseURL resolves.
aadeNewsResponse(pool, dbAnswers, qPage, qPageSize, feed, t) ==
    IF pool
    THEN IF \/ ~dbAnswers
            \/ (ParseIntOr(qPage, 1) - 1) * ParseIntOr(qPageSize, 20) < 0
            \/ ParseIntOr(qPageSize, 20) < 1
         THEN [status |-> 500, source |-> "none",
               fetched |-> <<>>, body |-> paginate(<<>>, 1, 20)]
         ELSE [status |-> 200, source |-> "database",
               fetched |-> DbRows,
               body |-> paginate(DbRows, ParseIntOr(qPage, 1),
                                 ParseIntOr(qPageSize, 20))]
    ELSE IF ~feed.ok
         THEN [status |-> 500, source |-> "none",
               fetched |-> <<>>, body |-> paginate(<<>>, 1, 20)]
         ELSE [status |-> 200, source |-> "rss",
               fetched |-> [k \in 1..Len(feed.items) |->
                               serverArticle(feed.items[k], t)],
               body |-> paginate([k \in 1..Len(feed.items) |->
                                     serverArticle(feed.items[k], t)],
                                 ParseIntOr(qPage, 1),
                                 ParseIntOr(qPageSize, 20))]

\* Items of the AADE feed as rss-parser gives them
MaxFeedItems == 5
SrvItem(k) == Item(<<64 + k>>, <<120, 48 + k>>, <<48 + k>>, <<100>>)
SrvFeeds ==
    {[ok |-> FALSE, items |-> <<>>]}
    \cup {[ok |-> TRUE, items |-> [k \in 1..n |-> SrvItem(k)]] :
             n \in {0, MaxFeedItems}}

\* Values of the page and pageSize parameters
MaxPage == 3
QueryValues == {QAbsent, QText} \cup {QNum(n) : n \in -1..MaxPage}

GetAadeNews(dbAnswers, qPage, qPageSize, feed) ==
    /\ srv.pc = "listening"
    /\ srv' = [srv EXCEPT !.resp =
                  [route |-> "aade-news",
                   asked |-> [dbAnswers |-> dbAnswers, page |-> qPage,
                              pageSize |-> qPageSize, feed |-> feed],
                   answer |-> aadeNewsResponse(srv.pool, dbAnswers, qPage,
                                               qPageSize, feed, now)]]
    /\ UNCHANGED <<now, ticks, pureVars, fetchVars, cache, appVars, scr>>

InitServer ==
    /\ now = 0
    /\ ticks = 0
    /\ cache = [u \in FeedIds |-> NoEntry]
    /\ IdleFetchers
    /\ IdleApp
    /\ IdleSide

NextServer ==
    \/ \E envSet \in BOOLEAN : ServerStart(envSet)
    \/ \E ok \in BOOLEAN : DbConnect(ok)
    \/ DbRetry
    \/ \E dbAnswers \in BOOLEAN : GetHealth(dbAnswers)
    \/ \E dbAnswers \in BOOLEAN, qPage, qPageSize \in QueryValues,
          feed \in SrvFeeds :
          GetAadeNews(dbAnswers, qPage, qPageSize, feed)

SpecServer == InitServer /\ [][NextServer]_vars

-----------------------------------------------------------------------------
(* Properties of the backend                                                *)

\* A request was answered while no database could be reached: pool was
\* not set, or the database did not answer the query
AnsweredWithoutDatabase(route) ==
    /\ srv # SrvOff
    /\ srv.resp.route = route
    /\ (~srv.pool \/ ~srv.resp.asked.dbAnswers)

\* C22: whenever the database is not available the backend falls back to
\* the live feed: GET /api/aade-news answers with the articles fetched from
\* the feed and GET /api/health says healthy, database disconnected; the
\* server starts, and no request fails only because no database can be
\* reached, be it never configured, never connected, or no longer
\* answering after a connection.
C22_FallsBackWithoutDatabase ==
    /\ srv # SrvOff => srv.pc = "listening"
    /\ AnsweredWithoutDatabase("health") =>
          /\ srv.resp.answer.status = 200
          /\ srv.resp.answer.health = "healthy"
          /\ srv.resp.answer.database = "disconnected"
    /\ (AnsweredWithoutDatabase("aade-news") /\ srv.resp.asked.feed.ok) =>
          /\ srv.resp.answer.status = 200
          /\ srv.resp.answer.source = "rss"
          /\ Len(srv.resp.answer.fetched) = Len(srv.resp.asked.feed.items)

\* What does hold: with the four variables set, every request made while
\* pool is not set (during connectDB and after its failure) falls back
FallsBackWhilePoolUnset ==
    (srv # SrvOff /\ srv.pc = "listening" /\ ~srv.pool) =>
        /\ srv.resp.route = "health" =>
              /\ srv.resp.answer.status = 200
              /\ srv.resp.answer.database = "disconnected"
        /\ (srv.resp.route = "aade-news" /\ srv.resp.asked.feed.ok) =>
              /\ srv.resp.answer.status = 200
              /\ srv.resp.answer.source = "rss"

\* GET /api/aade-news was answered from the feed
RssAnswer ==
    /\ srv # SrvOff
    /\ srv.resp.route = "aade-news"
    /\ srv.resp.answer.status = 200
    /\ srv.resp.answer.source = "rss"

\* The items of list at the positions lo..hi, counted from 0
AtPositions(list, lo, hi) ==
    IF (IF lo < 0 THEN 0 ELSE lo) > Min(hi, Len(list) - 1) THEN <<>>
    ELSE SubSeq(list, (IF lo < 0 THEN 0 ELSE lo) + 1,
                Min(hi, Len(list) - 1) + 1)

\* The pages 1..n of list, one after the other
RECURSIVE PagesUpTo(_, _, _)
PagesUpTo(list, n, pageSize) ==
    IF n < 1 THEN <<>>
    ELSE PagesUpTo(list, n - 1, pageSize)
            \o paginate(list, n, pageSize).articles

\* n is ceil(a / b): the least integer that is not below a / b
IsCeil(n, a, b) ==
    IF b > 0 THEN n * b >= a /\ (n - 1) * b < a
    ELSE n * b <= a /\ (n - 1) * b > a

\* The response is the page of the fetched list that page and pageSize
\* name
IsThePage(answer) ==
    /\ answer.body.articles
          = AtPositions(answer.fetched,
                        (answer.body.page - 1) * answer.body.pageSize,
                        answer.body.page * answer.body.pageSize - 1)
    /\ answer.body.totalItems = Len(answer.fetched)
    /\ IsCeil(answer.body.totalPages, answer.body.totalItems,
              answer.body.pageSize)
    /\ PagesUpTo(answer.fetched, answer.body.totalPages,
                 answer.body.pageSize) = answer.fetched

\* page and pageSize default to 1 and 20 when missing or no number
DefaultsApplied(asked, body) ==
    /\ asked.page.kind # "number" => body.page = 1
    /\ asked.pageSize.kind # "number" => body.pageSize = 20
    /\ (asked.page.kind = "number" /\ asked.page.n # 0)
          => body.page = asked.page.n
    /\ (asked.pageSize.kind = "number" /\ asked.pageSize.n # 0)
          => body.pageSize = asked.pageSize.n

\* C23: for every page and pageSize that GET /api/aade-news accepts when
\* it answers from the feed, the response holds exactly the items at the
\* positions (page-1)*pageSize to page*pageSize-1 of the fetched list,
\* totalItems is the length of the list and totalPages is
\* ceil(totalItems/pageSize), so that the pages 1..totalPages hold every
\* item once; a page or pageSize that is missing or no number is 1, 20.
C23_PageOfFetchedList ==
    RssAnswer =>
        /\ IsThePage(srv.resp.answer)
        /\ DefaultsApplied(srv.resp.asked, srv.resp.answer.body)

\* The same for a page and a pageSize of at least 1, where it holds
PageOfFetchedListFromOne ==
    (RssAnswer /\ srv.resp.answer.body.page >= 1
               /\ srv.resp.answer.body.pageSize >= 1) =>
        /\ IsThePage(srv.resp.answer)
        /\ DefaultsApplied(srv.resp.asked, srv.resp.answer.body)

\* C30: connectDB makes at most 3 connection attempts and stops at the
\* first one that succeeds; after the n-th failed attempt (n = 1, 2) it
\* waits Min(1000 * 2^n, 10000) ms, after the third it does not wait but
\* throws, pool being left unset; the callback of app.listen catches the
\* error and the server goes on answering requests.
C30_ConnectThreeTimes ==
    (srv # SrvOff /\ srv.pc = "listening") =>
        /\ srv.attempts <= maxRetries
        /\ srv.pool <=> srv.conn = "connected"
        /\ srv.conn = "connected" => srv.attempts = srv.retryCount + 1
        /\ srv.conn # "connected" =>
              srv.attempts = srv.retryCount
        /\ Len(srv.waits) <= maxRetries - 1
        /\ \A n \in 1..Len(srv.waits) :
              srv.waits[n] = Min(1000 * Pow2(n), 10000)
        /\ srv.conn = "waiting" =>
              /\ srv.retryCount \in 1..(maxRetries - 1)
              /\ srv.delay = Min(1000 * Pow2(srv.retryCount), 10000)
              /\ Len(srv.waits) = srv.retryCount - 1
        /\ srv.conn = "connecting" => Len(srv.waits) = srv.retryCount
        /\ srv.conn = "failed" =>
              /\ srv.attempts = maxRetries
              /\ srv.waits = <<2000, 4000>>
              /\ srv.delay = 0
              /\ ~srv.pool
              /\ ENABLED GetHealth(TRUE)
              /\ srv.resp.route = "health" =>
                    srv.resp.answer.status = 200
              /\ (srv.resp.route = "aade-news" /\ srv.resp.asked.feed.ok) =>
                    srv.resp.answer.status = 200

\* C30 witness: the third attempt failed after waits of 2 and 4 s, pool is
\* not set, and a request for the news was answered from the feed
C30_Witness ==
    /\ srv # SrvOff
    /\ srv.conn = "failed"
    /\ srv.attempts = 3
    /\ srv.waits = <<2000, 4000>>
    /\ ~srv.pool
    /\ srv.resp.route = "aade-news"
    /\ srv.resp.answer.status = 200
    /\ srv.resp.answer.source = "rss"
    /\ Len(srv.resp.answer.body.articles) = 2

-----------------------------------------------------------------------------
(* GreekTaxStorageManager called directly (assets/js/storage.js)            *)

MaxStoreOps == 4

\* Articles as a caller hands them to addArticle: the flags are false
StoreArticles ==
    { ToJSON(<<GreekArticle(item, 1, 0, 1)>>)[1] : item \in Items }

StoreIds == { a.id : a \in StoreArticles }

\* What a call of the manager leaves for inspection: the call, the stored
\* list it found, and what saveArticles came to ("none" when the call did
\* not reach saveArticles)
StoreCall(fn, arg, q) == [fn |-> fn, arg |-> arg, q |-> q, before |-> stored]

\* addArticle(article)
CallAddArticle(article, q) ==
    LET r == addArticle(article, stored, q)
        unshifted == <<article>> \o stored
    IN  /\ budget.acts > 0
        /\ stored' = r.stored
        /\ pin' = StoreCall("addArticle", article.id, q)
        /\ pout' = [saved |-> ~HasId(stored, article.id),
                    list |-> IF Len(unshifted) > ArticleCap
                             THEN Slice(unshifted, ArticleCap) ELSE unshifted,
                    result |-> r.result]
        /\ budget' = Spend("acts", q)
        /\ UNCHANGED <<sideVars, now, ticks, fetchVars, cache, articles,
                       isLoading, autoRefreshTimer, runs, lastCall,
                       lastMerge, bookmarks, archived>>

\* deleteArticle(articleId)
CallDeleteArticle(articleId, q) ==
    LET r == deleteArticle(articleId, stored, q)
    IN  /\ budget.acts > 0
        /\ stored' = r.stored
        /\ pin' = StoreCall("deleteArticle", articleId, q)
        /\ pout' = [saved |-> TRUE,
                    list |-> SelectSeq(stored, LAMBDA a : a.id # articleId),
                    result |-> r.result]
        /\ budget' = Spend("acts", q)
        /\ UNCHANGED <<sideVars, now, ticks, fetchVars, cache, articles,
                       isLoading, autoRefreshTimer, runs, lastCall,
                       lastMerge, bookmarks, archived>>

\* toggleBookmark(articleId)
CallToggleBookmark(articleId, q) ==
    LET tf == toggleFlag("bookmarked", articleId, stored, bookmarks, q)
    IN  /\ budget.acts > 0
        /\ stored' = tf.stored
        /\ bookmarks' = tf.coll
        /\ pin' = StoreCall("toggleBookmark", articleId, q)
        /\ pout' = [saved |-> HasId(stored, articleId), list |-> <<>>,
                    result |-> IF tf.threw THEN "throw" ELSE "done"]
        /\ budget' = Spend("acts", q)
        /\ UNCHANGED <<sideVars, now, ticks, fetchVars, cache, articles,
                       isLoading, autoRefreshTimer, runs, lastCall,
                       lastMerge, archived>>

\* toggleArchive(articleId)
CallToggleArchive(articleId, q) ==
    LET tf == toggleFlag("archived", articleId, stored, archived, q)
    IN  /\ budget.acts > 0
        /\ stored' = tf.stored
        /\ archived' = tf.coll
        /\ pin' = StoreCall("toggleArchive", articleId, q)
        /\ pout' = [saved |-> HasId(stored, articleId), list |-> <<>>,
                    result |-> IF tf.threw THEN "throw" ELSE "done"]
        /\ budget' = Spend("acts", q)
        /\ UNCHANGED <<sideVars, now, ticks, fetchVars, cache, articles,
                       isLoading, autoRefreshTimer, runs, lastCall,
                       lastMerge, bookmarks>>

\* What setItem may do during one call
StoreQuotaChoices == IF budget.quota > 0 THEN StorageQuotas ELSE {"ok"}

InitStorage ==
    /\ IdleSide
    /\ pin = NoInput
    /\ pout = NoInput
    /\ now = 0
    /\ ticks = 0
    /\ cache = [u \in FeedIds |-> NoEntry]
    /\ IdleFetchers
    /\ articles = <<>>
    /\ stored = <<>>
    /\ bookmarks = <<>>
    /\ archived = <<>>
    /\ isLoading = FALSE
    /\ autoRefreshTimer = FALSE
    /\ runs = <<>>
    /\ lastCall = NoCall
    /\ lastMerge = NoMerge
    /\ budget = [refresh |-> 0, acts |-> MaxStoreOps, quota |-> MaxQuota]

NextStorage ==
    \/ \E a \in StoreArticles, q \in StoreQuotaChoices : CallAddArticle(a, q)
    \/ \E id \in StoreIds, q \in StoreQuotaChoices : CallDeleteArticle(id, q)
    \/ \E id \in StoreIds, q \in StoreQuotaChoices : CallToggleBookmark(id, q)
    \/ \E id \in StoreIds, q \in StoreQuotaChoices : CallToggleArchive(id, q)

SpecStorage == InitStorage /\ [][NextStorage]_vars

\* The ids of a collection, each at most once
IdsOnce(coll) ==
    \A i, j \in 1..Len(coll) : coll[i].id = coll[j].id => i = j

\* C26: after any sequence of addArticle, deleteArticle, toggleBookmark and
\* toggleArchive, every article of the stored list has its id in the
\* bookmarks collection exactly when its bookmarked flag is true and in the
\* archived collection exactly when its archived flag is true, and no
\* collection holds an id twice.
C26_CollectionsMirrorFlags ==
    /\ \A i \in 1..Len(stored) :
          /\ HasId(bookmarks, stored[i].id) <=> stored[i].bookmarked
          /\ HasId(archived, stored[i].id) <=> stored[i].archived
    /\ IdsOnce(bookmarks)
    /\ IdsOnce(archived)

\* The part of it that holds: no collection holds an id twice
CollectionsHoldIdsOnce == IdsOnce(bookmarks) /\ IdsOnce(archived)

\* A toggleBookmark or toggleArchive during which every setItem succeeds
\* keeps the flags and the collections in step
ToggleKeepsMirror ==
    [][ (C26_CollectionsMirrorFlags
           /\ pin'.fn \in {"toggleBookmark", "toggleArchive"}
           /\ pin'.q = "ok") => C26_CollectionsMirrorFlags' ]_vars

\* C27: saveArticles ends and returns true when the list was stored and
\* false when not, and never throws, also when every setItem throws
\* QuotaExceededError and more than 500 articles are stored; after a quota
\* error at most the first 500 of the articles stored before are stored.
C27_SaveReturnsBoolean ==
    (pin # NoInput /\ pin.fn \in {"addArticle", "deleteArticle"}
       /\ pout.saved) =>
        /\ pout.result \in {"true", "false"}
        /\ pout.result = "true" <=> (pin.q = "ok" /\ stored = ToJSON(pout.list))
        /\ pin.q # "ok" =>
              /\ Len(stored) <= QuotaTrim
              /\ stored = Slice(pin.before, Len(stored))

\* The same while no more than 500 articles are stored, where it holds
SaveReturnsBooleanUpToTrim ==
    (pin # NoInput /\ pin.fn \in {"addArticle", "deleteArticle"}
       /\ pout.saved /\ Len(pin.before) <= QuotaTrim) =>
        /\ pout.result \in {"true", "false"}
        /\ pout.result = "true" <=> (pin.q = "ok" /\ stored = ToJSON(pout.list))
        /\ pin.q # "ok" => stored = pin.before

-----------------------------------------------------------------------------
(* RSSParser of js/script.js: the feed list and the loads in progress       *)

MaxScriptOps == 4

\* 'http://a' and 'https://b'
UrlA == <<104, 116, 116, 112, 58, 47, 47, 97>>
UrlB == <<104, 116, 116, 112, 115, 58, 47, 47, 98>>

\* The feed loadSavedFeeds takes when nothing is saved (the feed of aade.gr)
DefaultFeed == UrlB

\* What localStorage holds under 'rssFeeds' when the page is opened:
\* nothing (<<-1>>), an empty list, or two feeds
SavedAtLoad == {<<-1>>, <<>>, <<UrlB, UrlA>>}

\* What #feed-url holds at a submit: '', '  ', 'a', 'ftp://a', 'http://',
\* 'http://a', ' http://a ', 'https://b'
ScriptInputs ==
    {<<>>, <<SP, SP>>, <<97>>, <<102, 116, 112, 58, 47, 47, 97>>,
     <<104, 116, 116, 112, 58, 47, 47>>, UrlA, <<SP>> \o UrlA \o <<SP>>,
     UrlB}

\* Index of the first ':' at or after position i, 0 when there is none
RECURSIVE ColonFrom(_, _)
ColonFrom(s, i) ==
    IF i > Len(s) THEN 0 ELSE IF s[i] = 58 THEN i ELSE ColonFrom(s, i + 1)

IsLetter(c) == (c >= 65 /\ c <= 90) \/ (c >= 97 /\ c <= 122)

ToLower(c) == IF c >= 65 /\ c <= 90 THEN c + 32 ELSE c

\* The text without the slashes it starts with
RECURSIVE SkipSlashes(_)
SkipSlashes(s) ==
    IF s # <<>> /\ s[1] = 47 THEN SkipSlashes(Tail(s)) ELSE s

\* new URL(string).protocol without its colon, <<>> when new URL throws:
\* a scheme of letters before the first ':' and, for http, https and ftp,
\* a host after it
UrlProtocol(string) ==
    LET k == ColonFrom(string, 1)
        scheme == [i \in 1..(k - 1) |-> ToLower(string[i])]
        host == SkipSlashes(SubSeq(string, k + 1, Len(string)))
    IN  IF k <= 1 THEN <<>>
        ELSE IF \E i \in 1..(k - 1) : ~IsLetter(string[i]) THEN <<>>
        ELSE IF scheme \in {<<104, 116, 116, 112>>,
                            <<104, 116, 116, 112, 115>>,
                            <<102, 116, 112>>} /\ host = <<>> THEN <<>>
        ELSE scheme

\* RSSParser.isValidUrl
isValidUrl(string) ==
    UrlProtocol(string) \in {<<104, 116, 116, 112>>,
                             <<104, 116, 116, 112, 115>>}

\* What parseFeed(feedUrl) returns when its fetch succeeds: the articles
\* of the feed, source telling the feeds apart
FeedArticles(feedUrl) ==
    IF feedUrl = UrlA
    THEN <<[source |-> feedUrl, title |-> 1, pubDate |-> 3],
           [source |-> feedUrl, title |-> 2, pubDate |-> 1]>>
    ELSE <<[source |-> feedUrl, title |-> 1, pubDate |-> 2]>>

\* articles.sort((a, b) => new Date(b.pubDate) - new Date(a.pubDate)):
\* newest first, articles of one date in the order they had
RECURSIVE InsertByDate(_, _)
InsertByDate(sorted, a) ==
    IF sorted = <<>> THEN <<a>>
    ELSE IF Head(sorted).pubDate >= a.pubDate
         THEN <<Head(sorted)>> \o InsertByDate(Tail(sorted), a)
         ELSE <<a>> \o sorted

RECURSIVE SortNewestFirst(_)
SortNewestFirst(list) ==
    IF list = <<>> THEN <<>>
    ELSE InsertByDate(SortNewestFirst(SubSeq(list, 1, Len(list) - 1)),
                      list[Len(list)])

\* results.forEach: the articles of the fulfilled promises, in the order of
\* the promises
RECURSIVE Fulfilled(_, _)
Fulfilled(snap, ok) ==
    IF snap = <<>> THEN <<>>
    ELSE (IF Head(snap) \in ok THEN FeedArticles(Head(snap)) ELSE <<>>)
         \o Fulfilled(Tail(snap), ok)

\* loadAllFeeds from its await on: the articles of the fulfilled promises
\* are pushed, the list is sorted, setLoading(false)
loadAllFeedsSettled(s, snap, ok) ==
    [s EXCEPT !.articles = SortNewestFirst(@ \o Fulfilled(snap, ok)),
              !.isLoading = FALSE,
              !.disabled = FALSE]

\* loadAllFeeds up to its await: setLoading(true), this.articles = [], one
\* parseFeed promise for every feed of the list; Promise.allSettled of no
\* promise is settled before any other event
loadAllFeeds(s) ==
    LET t == [s EXCEPT !.articles = <<>>, !.isLoading = TRUE,
                       !.disabled = TRUE,
                       !.overlap = @ \/ s.loads # <<>>]
    IN  IF s.feeds = <<>> THEN loadAllFeedsSettled(t, <<>>, {})
        ELSE [t EXCEPT !.loads = Append(@, s.feeds)]

\* saveFeedsToStorage: setItem of the list, a throw is caught
saveFeedsToStorage(s, saveOk) ==
    IF saveOk THEN [s EXCEPT !.saved = s.feeds] ELSE s

\* The constructor: loadSavedFeeds and init
Constructed(savedFeeds) ==
    LET feeds == IF savedFeeds = <<-1>> THEN <<DefaultFeed>> ELSE savedFeeds
        s == [pc |-> "on", feeds |-> feeds, saved |-> feeds,
              articles |-> <<>>, isLoading |-> FALSE, disabled |-> FALSE,
              loads |-> <<>>, tests |-> <<>>, ops |-> 0,
              overlap |-> FALSE, cleared |-> FALSE, last |-> "init"]
    IN  IF feeds # <<>> THEN loadAllFeeds(s) ELSE s

\* The form is submitted: handleAddFeed up to its await
HandleAddFeed(text) ==
    LET feedUrl == Trim(text)
    IN  /\ scr # ScrOff
        /\ scr.ops < MaxScriptOps
        /\ ~scr.disabled
        /\ scr' = IF feedUrl = <<>>
                  THEN [scr EXCEPT !.ops = @ + 1, !.last = "empty"]
                  ELSE IF ~isValidUrl(feedUrl)
                  THEN [scr EXCEPT !.ops = @ + 1, !.last = "invalid"]
                  ELSE IF feedUrl \in Range(scr.feeds)
                  THEN [scr EXCEPT !.ops = @ + 1, !.last = "already"]
                  ELSE [scr EXCEPT !.ops = @ + 1, !.last = "testing",
                                   !.isLoading = TRUE, !.disabled = TRUE,
                                   !.tests = Append(@, feedUrl)]
        /\ UNCHANGED <<srv, now, ticks, pureVars, fetchVars, cache, appVars>>

\* The test fetch of a submitted url settles: handleAddFeed from its await
\* to await this.loadAllFeeds(), or its catch and finally
AddFeedTested(k, ok, saveOk) ==
    /\ scr # ScrOff
    /\ k \in 1..Len(scr.tests)
    /\ LET feedUrl == scr.tests[k]
           rest == [scr EXCEPT !.tests = RemoveAt(@, k)]
       IN  scr' = IF ok
                  THEN loadAllFeeds(saveFeedsToStorage(
                           [rest EXCEPT !.feeds = Append(@, feedUrl),
                                        !.last = "added"], saveOk))
                  ELSE [rest EXCEPT !.isLoading = FALSE,
                                    !.disabled = FALSE,
                                    !.last = "failed"]
    /\ UNCHANGED <<srv, now, ticks, pureVars, fetchVars, cache, appVars>>

\* removeFeed(feedUrl), by the button of a feed of the list
RemoveFeed(feedUrl, saveOk) ==
    /\ scr # ScrOff
    /\ scr.ops < MaxScriptOps
    /\ feedUrl \in Range(scr.feeds)
    /\ scr' = loadAllFeeds(saveFeedsToStorage(
                  [scr EXCEPT !.feeds = SelectSeq(@, LAMBDA f : f # feedUrl),
                              !.ops = @ + 1, !.last = "removed"], saveOk))
    /\ UNCHANGED <<srv, now, ticks, pureVars, fetchVars, cache, appVars>>

\* clearAllFeeds, confirmed; its button is disabled while the list is
\* empty
ClearAllFeeds(saveOk) ==
    /\ scr # ScrOff
    /\ scr.ops < MaxScriptOps
    /\ scr.feeds # <<>>
    /\ scr' = saveFeedsToStorage(
                  [scr EXCEPT !.feeds = <<>>, !.articles = <<>>,
                              !.ops = @ + 1, !.last = "cleared",
                              !.cleared = @ \/ scr.loads # <<>>], saveOk)
    /\ UNCHANGED <<srv, now, ticks, pureVars, fetchVars, cache, appVars>>

\* The promises of a loadAllFeeds are settled, those of the feeds in ok
\* fulfilled; a load awaited by handleAddFeed ends that too, with one more
\* setLoading(false)
LoadSettled(r, ok) ==
    /\ scr # ScrOff
    /\ r \in 1..Len(scr.loads)
    /\ ok \subseteq Range(scr.loads[r])
    /\ scr' = [loadAllFeedsSettled(scr, scr.loads[r], ok) EXCEPT
                  !.loads = RemoveAt(@, r), !.last = "loaded"]
    /\ UNCHANGED <<srv, now, ticks, pureVars, fetchVars, cache, appVars>>

InitScript ==
    /\ srv = SrvOff
    /\ \E savedFeeds \in SavedAtLoad : scr = Constructed(savedFeeds)
    /\ pin = NoInput
    /\ pout = NoInput
    /\ now = 0
    /\ ticks = 0
    /\ cache = [u \in FeedIds |-> NoEntry]
    /\ IdleFetchers
    /\ IdleApp

\* The retry button is drawn by showError only, which loadAllFeeds reaches
\* when rendering throws; it is not among the steps.
NextScript ==
    \/ \E text \in ScriptInputs : HandleAddFeed(text)
    \/ \E k \in 1..Len(scr.tests), ok \in BOOLEAN, saveOk \in BOOLEAN :
          AddFeedTested(k, ok, saveOk)
    \/ \E feedUrl \in {UrlA, UrlB}, saveOk \in BOOLEAN :
          RemoveFeed(feedUrl, saveOk)
    \/ \E saveOk \in BOOLEAN : ClearAllFeeds(saveOk)
    \/ \E r \in 1..Len(scr.loads) : \E ok \in SUBSET Range(scr.loads[r]) :
          LoadSettled(r, ok)

SpecScript == InitScript /\ [][NextScript]_vars

\* No element of the list twice
NoDuplicates(list) ==
    \A i, j \in 1..Len(list) : list[i] = list[j] => i = j

\* Every article is of a feed of the list, and none is there twice
ArticlesOfListedFeeds ==
    /\ \A i \in 1..Len(scr.articles) :
          scr.articles[i].source \in Range(scr.feeds)
    /\ NoDuplicates(scr.articles)

\* C25: when a loadAllFeeds was started while an earlier one was awaiting
\* its fetches, then once every load has ended the article list holds
\* articles of the feeds of the list only, and each article once.
C25_OverlappingLoads ==
    (scr # ScrOff /\ scr.overlap /\ scr.loads = <<>>) =>
        ArticlesOfListedFeeds

\* The same for the loads that did not overlap, with no clearAllFeeds
\* during a load and no url twice in the feed list: there it holds
LoadsOneAtATime ==
    (scr # ScrOff /\ ~scr.overlap /\ ~scr.cleared /\ scr.loads = <<>>
       /\ NoDuplicates(scr.feeds)) =>
        ArticlesOfListedFeeds

\* C29: the feed list, in memory and as saved, never holds an url twice;
\* handleAddFeed appends the url only when it is a valid http(s) url, is not
\* in the list and its test fetch succeeded, and in every other case leaves
\* the list and the saved copy as they were.
C29_FeedListWithoutDuplicates ==
    /\ [](scr # ScrOff => NoDuplicates(scr.saved) /\ NoDuplicates(scr.feeds))
    /\ [][ scr' # scr =>
             /\ scr'.last = "added" =>
                   \E k \in 1..Len(scr.tests) :
                       /\ scr'.feeds = Append(scr.feeds, scr.tests[k])
                       /\ isValidUrl(scr.tests[k])
                       /\ scr.tests[k] \notin Range(scr.feeds)
             /\ scr'.last \in {"empty", "invalid", "already", "testing",
                               "failed"} =>
                   /\ scr'.feeds = scr.feeds
                   /\ scr'.saved = scr.saved
         ]_vars

\* The part of it that holds: what handleAddFeed appends is a valid http(s)
\* url whose test fetch succeeded and that was not in the list when the
\* form was submitted; every other submit leaves the list and its copy
AddsValidTestedUrls ==
    [][ scr' # scr =>
          /\ scr'.last = "added" =>
                \E k \in 1..Len(scr.tests) :
                    /\ scr'.feeds = Append(scr.feeds, scr.tests[k])
                    /\ isValidUrl(scr.tests[k])
          /\ scr'.last \in {"empty", "invalid", "already", "testing",
                            "failed"} =>
                /\ scr'.feeds = scr.feeds
                /\ scr'.saved = scr.saved
      ]_vars

====
